---- MODULE Spec2Model ----
(***************************************************************************)
(* Verification model of the emergent-civ-sim kernel (src/src/Kernel.cpp), *)
(* its checkpoint serialization (src/core/src/utils/Serialization.cpp) and *)
(* the GPU belief kernel (src/unnamed/part_002).                           *)
(*                                                                         *)
(* Doubles are modelled in fixed point: a real v is the integer v * ONE,   *)
(* rounded to nearest.  Vectors indexed from 0 in the code (agents_,       *)
(* regionIndex_) are functions over 0..n-1; neighbour lists are sequences. *)
(***************************************************************************)
EXTENDS Integers, Sequences, FiniteSets, TLC

VARIABLES
    kernel,     \* kernel[k]: the Kernel object k (cfg_, generation_, rng_, agents_, regionIndex_)
    now,        \* the wall clock (std::chrono::system_clock)
    lastOp,     \* the last operation performed and what it returned
    gpu,        \* the device side of launchGpuBeliefUpdate: arrays B0..B3 and threads
    files,      \* the file system: files[path] is the file at path, if it exists
    shell,      \* the command shell (main): its position, the output of the last
                \* command and data/metrics.csv
    sched,      \* the tick in progress: the next phase, the phases run so far,
                \* and the delta buffer of the belief phase
    workers,    \* workers[run][w]: the thread-local engine tl_rng of worker thread w
                \* in one of two runs of the program, and the numbers it has drawn
    log,        \* the EventLog object and the threads that call it
    economy,    \* the Economy object: prices and, per good, the trade totals of
                \* the last update
    validation  \* the build (NDEBUG or not), the last call of a validation::check
                \* function and its outcome

vars == <<kernel, now, lastOp, gpu, files, shell, sched, workers, log, economy, validation>>

(***************************************************************************)
(* Bounds of the model                                                     *)
(***************************************************************************)
MaxPop == 4         \* cfg.population ranges over 1..MaxPop
MaxRegions == 2     \* cfg.regions ranges over 1..MaxRegions
MaxConn == 3        \* cfg.avgConnections ranges over 0..MaxConn
MaxSeed == 2        \* cfg.seed ranges over 0..MaxSeed
MaxGen == 2         \* a kernel is stepped at most MaxGen times
MaxClock == 2       \* the wall clock ranges over 0..MaxClock
MaxLaunch == 1      \* launchGpuBeliefUpdate runs at most MaxLaunch times
MaxTick == 10       \* a kernel runs at most MaxTick phased ticks

(***************************************************************************)
(* Fixed-point arithmetic                                                  *)
(***************************************************************************)
ONE == 10 * 100

Abs(a) == IF a < 0 THEN -a ELSE a

Min2(a, b) == IF a < b THEN a ELSE b

Max2(a, b) == IF a > b THEN a ELSE b

\* a / b rounded to nearest, symmetric around 0 (b > 0)
RDiv(a, b) == IF a >= 0 THEN (a + b \div 2) \div b ELSE -((b \div 2 - a) \div b)

\* product of two fixed-point numbers
Mul(a, b) == RDiv(a * b, ONE)

\* std::clamp
Clamp(v, lo, hi) == IF v < lo THEN lo ELSE IF v > hi THEN hi ELSE v

RECURSIVE SqrtIter(_, _, _)
SqrtIter(n, lo, hi) ==
    IF lo >= hi THEN lo
    ELSE LET mid == (lo + hi + 1) \div 2
         IN  IF mid * mid <= n THEN SqrtIter(n, mid, hi) ELSE SqrtIter(n, lo, mid - 1)

\* std::sqrt of n = a * ONE^2, in fixed point (floor)
ISqrt(n) == SqrtIter(n, 0, 40 * ONE)

\* fastTanh: the rational approximation x * (27 + x^2) / (27 + 9 x^2)
fastTanh(v) ==
    LET x2 == RDiv(v * v, ONE)
    IN  RDiv(v * (27 * ONE + x2), 27 * ONE + 9 * x2)

Dims == 0..3

(***************************************************************************)
(* The random engine rng_ and the distributions drawn from it.  The engine *)
(* is a full-period linear congruential generator; every distribution      *)
(* consumes one engine output per value.                                   *)
(***************************************************************************)
RngMod == 8 * 32

RngNext(s) == (141 * s + 47) % RngMod

\* an engine seeded from the seed and the time of day
RngSeedFromClock(seed) == (97 * (seed + now) + 5) % RngMod

\* rng_.seed(seed)
RngSeed(seed) == (97 * seed + 5) % RngMod

\* std::uniform_int_distribution(lo, hi) applied to engine output s
UniformInt(s, lo, hi) == lo + (s * (hi - lo + 1)) \div RngMod

\* std::uniform_real_distribution(0.0, 1.0) applied to engine output s
UniformReal(s) == (s * ONE) \div RngMod

\* sample points of the standard normal distribution, in tenths
ZTable == <<-50, -18, -13, -10, -7, -5, -3, -1, 1, 3, 5, 7, 10, 13, 18, 50>>

\* std::normal_distribution(mean, sd) applied to engine output s
Normal(s, mean, sd) == mean + RDiv(sd * ZTable[1 + (s * Len(ZTable)) \div RngMod], 10)

\* the engine state after n draws
RECURSIVE RngSkip(_, _)
RngSkip(s, n) == IF n = 0 THEN s ELSE RngSkip(RngNext(s), n - 1)


(***************************************************************************)
(* Vectors indexed from 0                                                  *)
(***************************************************************************)
VLen(v) == Cardinality(DOMAIN v)

\* std::vector::push_back
VPush(v, e) == [i \in 0..VLen(v) |-> IF i < VLen(v) THEN v[i] ELSE e]

Range(seq) == {seq[i] : i \in DOMAIN seq}

\* std::uint32_t arithmetic wraps; the model keeps 16 of the 32 bits
UintMod == 256 * 256

\* a decimal constant of the code, given in thousandths
FP(milli) == (milli * ONE) \div 1000

(***************************************************************************)
(* Kernel::initAgents.  regionIndex_[a.region] with a.region outside the   *)
(* index is undefined behaviour: the kernel is then "undefined", which     *)
(* stands for whatever the build does from there on.                       *)
(***************************************************************************)
\* draws of one agent: region, language, fluency, 4 traits, 4 beliefs
DrawsPerAgent == 3 + 4 + 4

\* the agent with id i built from the engine state s before its draws
NewAgent(cfg, i, s) ==
    LET dr(n) == RngSkip(s, n)
        trait(n) == Clamp(Normal(dr(n), FP(500), FP(150)), 0, ONE)
        x == [k \in Dims |-> Normal(dr(8 + k), 0, FP(750))]
        openness == trait(4)
        sociality == trait(7)
    IN  [ id |-> i,
          region |-> UniformInt(dr(1), 0, (cfg.regions - 1) % UintMod),
          alive |-> TRUE,
          primaryLang |-> UniformInt(dr(2), 0, 3),
          fluency |-> Clamp(FP(700) + Mul(FP(300), UniformReal(dr(3)) - FP(500)),
                            FP(300), ONE),
          openness |-> openness,
          conformity |-> trait(5),
          assertiveness |-> trait(6),
          sociality |-> sociality,
          x |-> x,
          B |-> [k \in Dims |-> fastTanh(x[k])],
          m_comm |-> ONE,
          m_susceptibility |-> Clamp(FP(700) + Mul(FP(600), openness - FP(500)),
                                     FP(400), FP(1200)),
          m_mobility |-> FP(800) + Mul(FP(400), sociality),
          neighbors |-> <<>> ]

\* the loop of initAgents from agent i on
RECURSIVE initAgentsLoop(_, _)
initAgentsLoop(K, i) ==
    IF i >= K.cfg_.population THEN K
    ELSE LET a == NewAgent(K.cfg_, i, K.rng_)
         IN  IF a.region \notin DOMAIN K.regionIndex_
             THEN [K EXCEPT !.pc = "undefined", !.rng_ = RngSkip(@, DrawsPerAgent)]
             ELSE
             initAgentsLoop([K EXCEPT !.rng_ = RngSkip(@, DrawsPerAgent),
                                      !.regionIndex_[a.region] = Append(@, i),
                                      !.agents_ = VPush(@, a)], i + 1)

\* an initAgents that resizes the region index instead of clearing it
initAgentsResize(K) ==
    initAgentsLoop([K EXCEPT !.agents_ = <<>>,
                             !.regionIndex_ = [r \in 0..(K.cfg_.regions - 1) |->
                                                  IF r \in DOMAIN @ THEN @[r] ELSE <<>>]], 0)

\* an initAgents without agents_.clear()
initAgentsNoClear(K) ==
    initAgentsLoop([K EXCEPT !.regionIndex_ = [r \in 0..(K.cfg_.regions - 1) |-> <<>>]], 0)

initAgents(K) ==
    initAgentsLoop([K EXCEPT !.agents_ = <<>>,
                             !.regionIndex_ = [r \in 0..(K.cfg_.regions - 1) |-> <<>>]], 0)

(***************************************************************************)
(* Kernel::buildSmallWorld                                                 *)
(***************************************************************************)
halfK(cfg) ==
    LET K == IF cfg.avgConnections % 2 = 1 THEN cfg.avgConnections + 1
             ELSE cfg.avgConnections
    IN  K \div 2

\* vec.erase(std::remove(vec.begin(), vec.end(), v), vec.end())
EraseRemove(seq, v) == SelectSeq(seq, LAMBDA e : e # v)

\* the ring-lattice loops from (i, d) on
RECURSIVE ringLattice(_, _, _, _, _)
ringLattice(ag, N, hK, i, d) ==
    IF i >= N THEN ag
    ELSE IF d > hK THEN ringLattice(ag, N, hK, i + 1, 1)
    ELSE LET j == (i + d) % N
             a1 == [ag EXCEPT ![i].neighbors = Append(@, j)]
             a2 == [a1 EXCEPT ![j].neighbors = Append(@, i)]
         IN  ringLattice(a2, N, hK, i, d + 1)

\* the targets the search loop of the rewiring accepts
Admissible(N, i, current) == (0..(N - 1)) \ (current \cup {i})

\* do { newJ = nodeDist(rng_); } while (newJ == i || current.count(newJ));
RECURSIVE findTarget(_, _, _, _)
findTarget(s, N, i, current) ==
    LET s1 == RngNext(s)
        newJ == UniformInt(s1, 0, N - 1)
    IN  IF newJ = i \/ newJ \in current THEN findTarget(s1, N, i, current)
        ELSE [rng |-> s1, newJ |-> newJ]

\* lines 87-90: the old edge is removed from both lists
removeEdge(ag, i, oldJ) ==
    LET a1 == [ag EXCEPT ![i].neighbors = EraseRemove(@, oldJ)]
    IN  [a1 EXCEPT ![oldJ].neighbors = EraseRemove(@, i)]

\* a rewiring that enters the new edge in the list of i only
addEdgeOneWay(ag, i, newJ) == [ag EXCEPT ![i].neighbors = Append(@, newJ)]

\* lines 100-101: the new edge is entered in both lists
addEdge(ag, i, newJ) ==
    LET a1 == [ag EXCEPT ![i].neighbors = Append(@, newJ)]
    IN  [a1 EXCEPT ![newJ].neighbors = Append(@, i)]

\* the rewiring loops from (i, d) on; pc becomes "hung" where the search
\* loop has no target it accepts and so never ends
RECURSIVE rewire(_, _, _, _)
rewire(K, i, d, current) ==
    LET N == K.cfg_.population
    IN
    IF i >= N THEN K
    ELSE IF d > halfK(K.cfg_)
    THEN IF i + 1 < N THEN rewire(K, i + 1, 1, Range(K.agents_[i + 1].neighbors)) ELSE K
    ELSE LET s1 == RngNext(K.rng_)
         IN  IF UniformReal(s1) < K.cfg_.rewireProb
             THEN LET oldJ == (i + d) % N
                      a2 == removeEdge(K.agents_, i, oldJ)
                      cur1 == current \ {oldJ}
                  IN  IF Admissible(N, i, cur1) = {}
                      THEN [K EXCEPT !.pc = "hung", !.rng_ = s1, !.agents_ = a2]
                      ELSE LET t == findTarget(s1, N, i, cur1)
                           IN  rewire([K EXCEPT !.rng_ = t.rng,
                                                !.agents_ = addEdge(a2, i, t.newJ)],
                                      i, d + 1, cur1 \cup {t.newJ})
             ELSE rewire([K EXCEPT !.rng_ = s1], i, d + 1, current)

\* the de-duplication of one neighbour list, from position idx on
RECURSIVE dedupList(_, _, _, _)
dedupList(nbrs, id, idx, cleaned) ==
    IF idx > Len(nbrs) THEN cleaned
    ELSE IF nbrs[idx] # id /\ nbrs[idx] \notin Range(cleaned)
    THEN dedupList(nbrs, id, idx + 1, Append(cleaned, nbrs[idx]))
    ELSE dedupList(nbrs, id, idx + 1, cleaned)

\* a construction that leaves the neighbour lists as the rewiring left them
dedupNone(ag) == ag

dedup(ag) == [i \in DOMAIN ag |-> [ag[i] EXCEPT !.neighbors = dedupList(@, ag[i].id, 1, <<>>)]]

buildSmallWorld(K) ==
    LET N == K.cfg_.population
        lat == [K EXCEPT !.agents_ = ringLattice(@, N, halfK(K.cfg_), 0, 1)]
        rew == IF N > 0 THEN rewire(lat, 0, 1, Range(lat.agents_[0].neighbors)) ELSE lat
    IN  IF rew.pc = "hung" THEN rew
        ELSE [rew EXCEPT !.agents_ = dedup(@)]

(***************************************************************************)
(* Kernel::reset and Kernel::Kernel                                        *)
(***************************************************************************)
\* a reset without rng_.seed(cfg.seed)
resetKeepEngine(K, cfg) ==
    LET K1 == initAgents([K EXCEPT !.pc = "ready",
                                   !.cfg_ = cfg,
                                   !.generation_ = 0])
    IN  IF K1.pc = "undefined" THEN K1 ELSE buildSmallWorld(K1)

reset(K, cfg) ==
    LET K1 == initAgents([K EXCEPT !.pc = "ready",
                                   !.cfg_ = cfg,
                                   !.generation_ = 0,
                                   !.rng_ = RngSeed(cfg.seed)])
    IN  IF K1.pc = "undefined" THEN K1 ELSE buildSmallWorld(K1)

NoConfig == [population |-> 0, regions |-> 0, avgConnections |-> 0, rewireProb |-> 0,
             stepSize |-> 0, simFloor |-> 0, seed |-> 0]

\* a kernel object that has not been constructed
NoKernel == [pc |-> "absent", cfg_ |-> NoConfig, generation_ |-> 0, rng_ |-> 0,
             agents_ |-> <<>>, regionIndex_ |-> <<>>]

\* Kernel::Kernel(cfg) : cfg_(cfg), rng_(cfg.seed) { reset(cfg); }
KernelCtor(cfg) == reset([NoKernel EXCEPT !.cfg_ = cfg, !.rng_ = RngSeed(cfg.seed)], cfg)


(***************************************************************************)
(* Kernel::updateBeliefs, Kernel::step, Kernel::stepN                      *)
(***************************************************************************)
SumDims(f) == f[0] + f[1] + f[2] + f[3]

languageQuality(ai, aj) ==
    IF ai.primaryLang = aj.primaryLang
    THEN Min2(ai.fluency, aj.fluency)
    ELSE Mul(FP(250), Min2(ai.fluency, aj.fluency))

\* dot, ni and nj carry the scale ONE^2; the quotient is brought to scale ONE
similarityGate(cfg, ai, aj) ==
    LET dot == SumDims([k \in Dims |-> ai.B[k] * aj.B[k]])
        ni == SumDims([k \in Dims |-> ai.B[k] * ai.B[k]])
        nj == SumDims([k \in Dims |-> aj.B[k] * aj.B[k]])
        cos == IF ni > 0 /\ nj > 0
               THEN RDiv(dot * (ONE \div 4), RDiv(ISqrt(ni) * ISqrt(nj), 4))
               ELSE 0
        sim == RDiv(cos + ONE, 2)
    IN  Max2(sim, cfg.simFloor)

\* a weight that leaves out cfg_.stepSize
weightNoStepSize(cfg, ai, aj) ==
    LET s == similarityGate(cfg, ai, aj)
        lq == languageQuality(ai, aj)
        comm == RDiv(ai.m_comm + aj.m_comm, 2)
    IN  Mul(Mul(Mul(s, lq), comm), ai.m_susceptibility)

\* the influence weight of neighbour aj on ai
weight(cfg, ai, aj) ==
    LET s == similarityGate(cfg, ai, aj)
        lq == languageQuality(ai, aj)
        comm == RDiv(ai.m_comm + aj.m_comm, 2)
    IN  Mul(Mul(Mul(Mul(cfg.stepSize, s), lq), comm), ai.m_susceptibility)

\* acc after the neighbours at positions idx.. of agent i have been added
RECURSIVE accumulate(_, _, _, _, _)
accumulate(cfg, ag, i, idx, acc) ==
    IF idx > Len(ag[i].neighbors) THEN acc
    ELSE LET aj == ag[ag[i].neighbors[idx]]
             w == weight(cfg, ag[i], aj)
         IN  accumulate(cfg, ag, i, idx + 1,
                        [k \in Dims |-> acc[k] + Mul(w, fastTanh(aj.B[k] - ag[i].B[k]))])

\* first pass: the deltas of every agent, from the beliefs as they stand
computeDeltas(cfg, ag) ==
    [i \in DOMAIN ag |-> accumulate(cfg, ag, i, 1, [k \in Dims |-> 0])]

\* a second pass that also nudges the susceptibility multiplier
applyDeltasNudge(ag, dx) ==
    [i \in DOMAIN ag |->
        LET x == [k \in Dims |-> ag[i].x[k] + dx[i][k]]
        IN  [ag[i] EXCEPT !.x = x, !.B = [k \in Dims |-> fastTanh(x[k])],
                          !.m_susceptibility = IF @ < FP(1200) THEN @ + 1 ELSE @ - 1]]

\* second pass: x += dx, B = fastTanh(x)
applyDeltas(ag, dx) ==
    [i \in DOMAIN ag |->
        LET x == [k \in Dims |-> ag[i].x[k] + dx[i][k]]
        IN  [ag[i] EXCEPT !.x = x, !.B = [k \in Dims |-> fastTanh(x[k])]]]

updateBeliefs(K) ==
    [K EXCEPT !.agents_ = applyDeltas(K.agents_, computeDeltas(K.cfg_, K.agents_))]

\* a step that also runs a mortality pass, flagging agent 0 dead
stepWithMortality(K) ==
    [updateBeliefs(K) EXCEPT !.generation_ = @ + 1,
                             !.agents_ = [i \in DOMAIN @ |->
                                             IF i = 0 THEN [@[i] EXCEPT !.alive = FALSE]
                                             ELSE @[i]]]

step(K) == [updateBeliefs(K) EXCEPT !.generation_ = @ + 1]

RECURSIVE stepN(_, _)
stepN(K, n) == IF n <= 0 THEN K ELSE stepN(step(K), n - 1)

(***************************************************************************)
(* Kernel::computeMetrics                                                  *)
(***************************************************************************)
\* the sum of f over the set S
RECURSIVE SumOver(_, _)
SumOver(S, f) ==
    IF S = {} THEN 0
    ELSE LET e == CHOOSE e \in S : TRUE IN f[e] + SumOver(S \ {e}, f)

\* Metrics m; the members of a Metrics that computeMetrics has not assigned
MetricsDefault ==
    [polarizationMean |-> 0, polarizationStd |-> 0, avgOpenness |-> 0, avgConformity |-> 0]

\* the centroid of region r: the sum of B over regionIndex_[r], divided by
\* the size of the list when it is not empty
centroid(K, r) ==
    LET ids == K.regionIndex_[r]
        n == Len(ids)
        c == [k \in Dims |-> SumOver(DOMAIN ids, [p \in DOMAIN ids |-> K.agents_[ids[p]].B[k]])]
    IN  IF n > 0 THEN [k \in Dims |-> RDiv(c[k], n)] ELSE c

\* std::sqrt of the sum of the squared differences of two centroids
centroidDistance(ci, cj) ==
    ISqrt(SumDims([k \in Dims |-> (ci[k] - cj[k]) * (ci[k] - cj[k])]))

computeMetrics(K) ==
    LET R == DOMAIN K.regionIndex_
        counts == [r \in R |-> Len(K.regionIndex_[r])]
        pairs == {ij \in R \X R : ij[1] < ij[2] /\ counts[ij[1]] # 0 /\ counts[ij[2]] # 0}
        dists == [ij \in pairs |-> centroidDistance(centroid(K, ij[1]), centroid(K, ij[2]))]
        nd == Cardinality(pairs)
        mean == RDiv(SumOver(pairs, dists), nd)
        sq == SumOver(pairs, [ij \in pairs |-> (dists[ij] - mean) * (dists[ij] - mean)])
        N == VLen(K.agents_)
        ids == DOMAIN K.agents_
    IN  [ polarizationMean |-> IF nd # 0 THEN mean ELSE MetricsDefault.polarizationMean,
          polarizationStd |-> IF nd # 0 THEN ISqrt(RDiv(sq, nd))
                              ELSE MetricsDefault.polarizationStd,
          avgOpenness |-> RDiv(SumOver(ids, [i \in ids |-> K.agents_[i].openness]), N),
          avgConformity |-> RDiv(SumOver(ids, [i \in ids |-> K.agents_[i].conformity]), N) ]

(***************************************************************************)
(* Configurations and kernel objects                                       *)
(***************************************************************************)
KIds == {1, 2}

Configs ==
    [ population : 1..MaxPop,
      regions : 1..MaxRegions,
      avgConnections : 0..MaxConn,
      rewireProb : {0, FP(300), ONE},
      stepSize : {0, FP(150), ONE},
      simFloor : {FP(50)},
      seed : 0..MaxSeed ]

\* the configurations reset is called with: another population
ResetConfigs(cfg) == {[cfg EXCEPT !.population = n] : n \in 1..MaxPop}

\* an operation on kernel k, what it returned, and for checkpoint I/O the path,
\* the number of reads of agent and region data, and whether the stream failed
IoOp(name, k, ok, path, reads, ioError) ==
    [op |-> name, k |-> k, ok |-> ok, path |-> path, reads |-> reads, ioError |-> ioError]

Op(name, k, ok) == IoOp(name, k, ok, "", 0, FALSE)

(***************************************************************************)
(* updateBeliefsKernel and launchGpuBeliefUpdate.  The host storage is the *)
(* agent table of a kernel; the device holds its own copy of B0..B3.  The  *)
(* device copies of susceptibility, fluency and the neighbour arrays are   *)
(* never written, so they are read from the host table.                    *)
(***************************************************************************)
GpuIdle(n) == [phase |-> "idle", k |-> 0, launches |-> n, done |-> {}, B |-> <<>>,
               stepSize |-> 0, simFloor |-> 0]

\* normProd > 1e-9, for ni and nj of scale ONE^2
NormProdAboveEps(ni, nj) ==
    LET eps == (((ONE * ONE) \div 1000) * ((ONE * ONE) \div 1000)) \div 1000
    IN  IF ni = 0 \/ nj = 0 THEN FALSE
        ELSE IF ni > eps \/ nj > eps THEN TRUE
        ELSE ni * nj > eps

\* the contribution of neighbour nbrId to the delta of thread i (step 3)
gpuContribution(B, ag, i, nbrId, stepSize, simFloor) ==
    LET ni == SumDims([k \in Dims |-> B[i][k] * B[i][k]])
        nj == SumDims([k \in Dims |-> B[nbrId][k] * B[nbrId][k]])
        dot == SumDims([k \in Dims |-> B[i][k] * B[nbrId][k]])
        sim == IF NormProdAboveEps(ni, nj)
               THEN RDiv(dot * (ONE \div 4), RDiv(ISqrt(ni) * ISqrt(nj), 4))
               ELSE ONE
        gate == RDiv((sim - simFloor) * ONE, ONE - simFloor)
        langQ == RDiv(ag[i].fluency + ag[nbrId].fluency, 2)
        w == Mul(Mul(Mul(stepSize, gate), langQ), ag[i].m_susceptibility)
    IN  IF gate <= 0 THEN [k \in Dims |-> 0]
        ELSE [k \in Dims |-> Mul(w, fastTanh(B[nbrId][k] - B[i][k]))]

\* the deltas d0..d3 of thread i after the neighbours at positions idx..
RECURSIVE gpuAccumulate(_, _, _, _, _, _, _)
gpuAccumulate(B, ag, i, idx, stepSize, simFloor, d) ==
    IF idx > Len(ag[i].neighbors) THEN d
    ELSE LET c == gpuContribution(B, ag, i, ag[i].neighbors[idx], stepSize, simFloor)
         IN  gpuAccumulate(B, ag, i, idx + 1, stepSize, simFloor,
                           [k \in Dims |-> d[k] + c[k]])

\* what thread i writes back (step 4), reading the device arrays B
gpuThreadResult(B, ag, i, stepSize, simFloor) ==
    LET d == gpuAccumulate(B, ag, i, 1, stepSize, simFloor, [k \in Dims |-> 0])
    IN  [k \in Dims |-> Clamp(B[i][k] + d[k], -ONE, ONE)]

\* the arrays a launch would leave if every thread read the arrays as they
\* stood at the launch
gpuFromSnapshot(B, ag, stepSize, simFloor) ==
    [i \in DOMAIN ag |-> gpuThreadResult(B, ag, i, stepSize, simFloor)]

(***************************************************************************)
(* Checkpoint files.  A file is a sequence of items, each one value        *)
(* written by one writeBinary / out.write call (the header: one item per   *)
(* field).  An agent's scalar fields form one item; the fields the kernel  *)
(* never assigns (age, female, lineage, dialect, B_norm_sq) keep their     *)
(* defaults and are left out of it.                                        *)
(***************************************************************************)
CHECKPOINT_MAGIC == 1162040150

CHECKPOINT_VERSION == 1

\* CheckpointHeader: magic, version, generation, num_agents, num_regions, seed, timestamp
HeaderLen == 7

\* an item: what it is, and its value
Item(tag, v) == <<tag, v>>

NoFile == [exists |-> FALSE, data |-> <<>>]

\* "ckpt" can be created and opened; "nodir/ckpt" lies in a directory that
\* does not exist, so it can never be opened
Paths == {"ckpt", "nodir/ckpt"}

CanCreate(path) == path = "ckpt"

\* kernel.economy().getRegion(r) and .getAgentEconomy(i), as saveCheckpoint
\* reads them: the record of region r and of agent i.  No operation of the
\* kernel modelled here writes them, so a record is named by its owner.
getRegion(K, r) == <<"RegionalEconomy", r>>

getAgentEconomy(K, i) == <<"AgentEconomy", i>>

\* writeBinaryVector: the size, then the elements if there are any
writeBinaryVector(vec) ==
    IF Len(vec) > 0 THEN <<Item("size", Len(vec)), Item("data", vec)>>
    ELSE <<Item("size", 0)>>

writeAgent(a) ==
    <<Item("agent", [f \in (DOMAIN a) \ {"neighbors"} |-> a[f]])>>
        \o writeBinaryVector(a.neighbors)

\* the concatenation of f[0], ..., f[n-1]
RECURSIVE Concat(_, _)
Concat(f, n) == IF n = 0 THEN <<>> ELSE Concat(f, n - 1) \o f[n - 1]

\* everything saveCheckpoint writes for kernel K at time ts
checkpointImage(K, ts) ==
    LET N == VLen(K.agents_)
        R == VLen(K.regionIndex_)
    IN  << Item("magic", CHECKPOINT_MAGIC), Item("version", CHECKPOINT_VERSION),
           Item("generation", K.generation_), Item("num_agents", N),
           Item("num_regions", R), Item("seed", 0), Item("timestamp", ts) >>
        \o Concat([i \in 0..(N - 1) |-> writeAgent(K.agents_[i])], N)
        \o Concat([r \in 0..(R - 1) |-> writeBinaryVector(K.regionIndex_[r])], R)
        \o Concat([r \in 0..(R - 1) |-> <<Item("region_economy", getRegion(K, r))>>], R)
        \o Concat([i \in 0..(N - 1) |-> <<Item("agent_economy", getAgentEconomy(K, i))>>], N)

\* saveCheckpoint(kernel, filepath): the device takes cap items and fails
\* every write after them.  The result: the return value, the file, and
\* whether a write failed.
saveCheckpoint(K, path, old, ts, cap) ==
    IF ~CanCreate(path)
    THEN [ok |-> FALSE, file |-> old, ioError |-> TRUE]
    ELSE LET image == checkpointImage(K, ts)
         IN  [ok |-> TRUE,
              file |-> [exists |-> TRUE, data |-> SubSeq(image, 1, Min2(cap, Len(image)))],
              ioError |-> cap < Len(image)]

\* the input stream: next item, failbit, reads of agent and region data, and
\* whether a resize threw
Stream(pos, fail) == [pos |-> pos, fail |-> fail, reads |-> 0, threw |-> FALSE]

\* in.read of one item: it fails at the end of the file and in a failed stream
streamRead(F, st) ==
    IF ~st.fail /\ st.pos <= Len(F)
    THEN [st EXCEPT !.pos = @ + 1, !.reads = @ + 1]
    ELSE [st EXCEPT !.fail = TRUE, !.reads = @ + 1]

\* readBinaryVector: when the read of size fails, size is not initialised:
\* vec.resize(size) then succeeds (junk = "resized") and the elements are
\* read into it, or throws (junk = "threw")
readBinaryVector(F, st, junk) ==
    LET s1 == streamRead(F, st)
    IN  IF s1.fail
        THEN IF junk = "threw" THEN [s1 EXCEPT !.threw = TRUE] ELSE streamRead(F, s1)
        ELSE IF F[st.pos][2] > 0 THEN streamRead(F, s1) ELSE s1

readAgent(F, st, junk) == readBinaryVector(F, streamRead(F, st), junk)

\* for (auto& agent : agents) readAgent(in, agent);  with n agents left
RECURSIVE readAgents(_, _, _, _)
readAgents(F, st, n, junk) ==
    IF n = 0 \/ st.threw THEN st
    ELSE readAgents(F, readAgent(F, st, junk), n - 1, junk)

\* for (auto& region : regionIndex) readBinaryVector(in, region);
RECURSIVE readRegions(_, _, _, _)
readRegions(F, st, n, junk) ==
    IF n = 0 \/ st.threw THEN st
    ELSE readRegions(F, readBinaryVector(F, st, junk), n - 1, junk)

headerDefaults == << CHECKPOINT_MAGIC, CHECKPOINT_VERSION, 0, 0, 0, 0, 0 >>

\* readBinary(in, header): the fields the file holds, the defaults for the rest
readHeader(F) ==
    [f \in 1..HeaderLen |-> IF f <= Len(F) THEN F[f][2] ELSE headerDefaults[f]]

LoadResult(ok, st, ioError, K) == [ok |-> ok, reads |-> st.reads, ioError |-> ioError, kernel |-> K]

\* a loadCheckpoint that does not compare the version
loadCheckpointAnyVersion(K, file, junk) ==
    IF ~file.exists
    THEN LoadResult(FALSE, Stream(1, TRUE), TRUE, K)
    ELSE LET F == file.data
             header == readHeader(F)
             st0 == Stream(Min2(Len(F), HeaderLen) + 1, Len(F) < HeaderLen)
         IN  IF header[1] # CHECKPOINT_MAGIC
             THEN LoadResult(FALSE, st0, st0.fail, K)
             ELSE LET st1 == readAgents(F, st0, header[4], junk)
                      st2 == readRegions(F, st1, header[5], junk)
                  IN  LoadResult(~st2.threw, st2, st2.fail, K)

\* loadCheckpoint(kernel, filepath): the return value, the reads, whether the
\* stream failed, and the kernel afterwards (no member of it is assigned)
loadCheckpoint(K, file, junk) ==
    IF ~file.exists
    THEN LoadResult(FALSE, Stream(1, TRUE), TRUE, K)
    ELSE LET F == file.data
             header == readHeader(F)
             st0 == Stream(Min2(Len(F), HeaderLen) + 1, Len(F) < HeaderLen)
         IN  IF header[1] # CHECKPOINT_MAGIC
             THEN LoadResult(FALSE, st0, st0.fail, K)
             ELSE IF header[2] # CHECKPOINT_VERSION
             THEN LoadResult(FALSE, st0, st0.fail, K)
             ELSE LET st1 == readAgents(F, st0, header[4], junk)
                      st2 == readRegions(F, st1, header[5], junk)
                  IN  LoadResult(~st2.threw, st2, st2.fail, K)

(***************************************************************************)
(* Actions                                                                 *)
(***************************************************************************)
\* serialization::saveCheckpoint(kernel, path)
Save(k, path, cap) ==
    /\ kernel[k].pc = "ready"
    /\ gpu.phase = "idle"
    /\ LET r == saveCheckpoint(kernel[k], path, files[path], now, cap)
       IN  /\ files' = [files EXCEPT ![path] = r.file]
           /\ lastOp' = IoOp("save", k, r.ok, path, 0, r.ioError)
    /\ UNCHANGED <<kernel, now, gpu, shell, sched, workers, log, economy, validation>>

\* serialization::loadCheckpoint(kernel, path)
Load(k, path, junk) ==
    /\ kernel[k].pc = "ready"
    /\ gpu.phase = "idle"
    /\ LET r == loadCheckpoint(kernel[k], files[path], junk)
       IN  /\ kernel' = [kernel EXCEPT ![k] = r.kernel]
           /\ lastOp' = IoOp("load", k, r.ok, path, r.reads, r.ioError)
    /\ UNCHANGED <<now, gpu, files, shell, sched, workers, log, economy, validation>>

\* another program overwrites one header field of a file
Corrupt(path, field, value) ==
    /\ files[path].exists
    /\ field <= Len(files[path].data)
    /\ files[path].data[field][2] # value
    /\ files' = [files EXCEPT ![path].data[field][2] = value]
    /\ lastOp' = Op("corrupt", 0, TRUE)
    /\ UNCHANGED <<kernel, now, gpu, shell, sched, workers, log, economy, validation>>

\* launchGpuBeliefUpdate steps 1-4: copy host to device, launch the threads
GpuLaunch(k) ==
    /\ kernel[k].pc = "ready"
    /\ gpu.phase = "idle"
    /\ gpu.launches < MaxLaunch
    /\ gpu' = [phase |-> "running", k |-> k, launches |-> gpu.launches + 1, done |-> {},
               B |-> [i \in DOMAIN kernel[k].agents_ |-> kernel[k].agents_[i].B],
               stepSize |-> kernel[k].cfg_.stepSize,
               simFloor |-> kernel[k].cfg_.simFloor]
    /\ lastOp' = Op("gpuLaunch", k, TRUE)
    /\ UNCHANGED <<kernel, now, files, shell, sched, workers, log, economy, validation>>

\* one thread of updateBeliefsKernel runs; the threads run in any order
GpuThread(i) ==
    /\ gpu.phase = "running"
    /\ i \in DOMAIN gpu.B
    /\ i \notin gpu.done
    /\ gpu' = [gpu EXCEPT !.done = @ \cup {i},
                          !.B[i] = gpuThreadResult(gpu.B, kernel[gpu.k].agents_, i,
                                                   gpu.stepSize, gpu.simFloor)]
    /\ UNCHANGED <<kernel, now, lastOp, files, shell, sched, workers, log, economy, validation>>

\* cudaDeviceSynchronize and step 5: copy B0..B3 back to the host
GpuSync ==
    /\ gpu.phase = "running"
    /\ gpu.done = DOMAIN gpu.B
    /\ kernel' = [kernel EXCEPT ![gpu.k].agents_ =
                     [i \in DOMAIN @ |-> [@[i] EXCEPT !.B = gpu.B[i]]]]
    /\ gpu' = GpuIdle(gpu.launches)
    /\ lastOp' = Op("gpuUpdate", gpu.k, TRUE)
    /\ UNCHANGED <<now, files, shell, sched, workers, log, economy, validation>>

\* two runs of the program with the same master seed and worker count
Runs == {1, 2}

\* the worker threads of a run
Workers == {0, 1}

\* a thread that has not touched tl_rng yet
NoWorker == [started |-> FALSE, tl_rng |-> 0, drawn |-> <<>>]

\* the threads that share the EventLog
Threads == {1, 2}

\* a thread outside every EventLog call
Idle == [pc |-> "idle", op |-> "none", ev |-> <<>>, ret |-> <<>>]

\* EventLog() = default
NoLog == [events_ |-> <<>>,
          log_file_ |-> [open |-> FALSE, lines |-> <<>>, flushed |-> 0],
          file_initialized_ |-> FALSE,
          mutex_ |-> 0,
          emplacing |-> FALSE,
          calls |-> 0,
          th |-> [t \in Threads |-> Idle]]

\* an Economy before init
NoEconomy == [pc |-> "absent", prices |-> <<>>, updates |-> 0,
              exports |-> <<>>, imports |-> <<>>, loss |-> <<>>]

\* no validation function has been called
NoValidation == [build |-> "none", fn |-> "none", args |-> <<>>, threw |-> FALSE,
                 after |-> <<>>, warnings |-> 0, calls |-> 0]

\* no tick is in progress
NoSched == [pos |-> 0, trace |-> <<>>, dx |-> <<>>, pending |-> FALSE]

\* main has not started
NoShell == [pc |-> "absent", line |-> <<"", <<>>>>, out |-> <<>>, helps |-> 0,
            metricsFile |-> [exists |-> FALSE, header |-> 0, rows |-> <<>>]]

Init ==
    /\ kernel = [k \in KIds |-> NoKernel]
    /\ now = 0
    /\ lastOp = Op("none", 0, TRUE)
    /\ gpu = GpuIdle(0)
    /\ files = [p \in Paths |-> NoFile]
    /\ shell = NoShell
    /\ sched = NoSched
    /\ workers = [run \in Runs |-> [w \in Workers |-> NoWorker]]
    /\ log = NoLog
    /\ economy = NoEconomy
    /\ validation = NoValidation

\* Kernel kernel(cfg);
Construct(k, cfg) ==
    /\ kernel[k].pc = "absent"
    /\ kernel' = [kernel EXCEPT ![k] = KernelCtor(cfg)]
    /\ lastOp' = Op("ctor", k, TRUE)
    /\ UNCHANGED <<now, gpu, files, shell, sched, workers, log, economy, validation>>

\* kernel.step();
Step(k) ==
    /\ kernel[k].pc = "ready"
    /\ kernel[k].generation_ < MaxGen
    /\ gpu.phase = "idle"
    /\ kernel' = [kernel EXCEPT ![k] = step(@)]
    /\ lastOp' = Op("step", k, TRUE)
    /\ UNCHANGED <<now, gpu, files, shell, sched, workers, log, economy, validation>>

\* kernel.reset(cfg);
Reset(k, cfg) ==
    /\ kernel[k].pc = "ready"
    /\ gpu.phase = "idle"
    /\ kernel' = [kernel EXCEPT ![k] = reset(@, cfg)]
    /\ lastOp' = Op("reset", k, TRUE)
    /\ UNCHANGED <<now, gpu, files, shell, sched, workers, log, economy, validation>>

\* time passes
Tick ==
    /\ now < MaxClock
    /\ now' = now + 1
    /\ lastOp' = Op("tick", 0, TRUE)
    /\ UNCHANGED <<kernel, gpu, files, shell, sched, workers, log, economy, validation>>

Next ==
    \/ \E cfg \in Configs : Construct(1, cfg)
    \/ Step(1)
    \/ \E cfg \in ResetConfigs(kernel[1].cfg_) : Reset(1, cfg)

Spec == Init /\ [][Next]_vars

(***************************************************************************)
(* Two kernels constructed from one configuration, stepped independently   *)
(* (TEST(KernelTest, DeterministicUpdates))                                *)
(***************************************************************************)
TwinConfigs ==
    {c \in Configs : c.avgConnections = 2 /\ c.rewireProb = FP(300) /\ c.stepSize # 0}

\* Kernel kernel2(cfg); with the cfg kernel1 was constructed with
ConstructTwin ==
    /\ kernel[1].pc # "absent"
    /\ Construct(2, kernel[1].cfg_)

NextTwin ==
    \/ \E cfg \in TwinConfigs : Construct(1, cfg)
    \/ ConstructTwin
    \/ Step(1)
    \/ Step(2)
    \/ Tick

SpecTwin == Init /\ [][NextTwin]_vars

(***************************************************************************)
(* A kernel whose belief update runs on the GPU                            *)
(***************************************************************************)
GpuConfigs ==
    {c \in Configs : c.avgConnections = 2 /\ c.rewireProb = FP(300) /\ c.stepSize # 0}

NextGpu ==
    \/ \E cfg \in GpuConfigs : Construct(1, cfg)
    \/ GpuLaunch(1)
    \/ \E i \in 0..(MaxPop - 1) : GpuThread(i)
    \/ GpuSync

SpecGpu == Init /\ [][NextGpu]_vars

(***************************************************************************)
(* A kernel that is stepped, saved to and loaded from checkpoint files     *)
(***************************************************************************)
CkptConfigs ==
    {c \in Configs : /\ c.population <= 2
                     /\ c.avgConnections = 2
                     /\ c.rewireProb = 0
                     /\ c.stepSize = FP(150)
                     /\ c.seed = 0}

\* the longest checkpoint of a kernel of CkptConfigs
MaxImageLen == HeaderLen + 2 * 3 + MaxRegions * 3 + 2

\* how many items the device takes before its writes fail: none, a part of
\* the header, the header, the header and a part of the agents, everything
SaveCaps == {0, 2, HeaderLen, HeaderLen + 2, MaxImageLen}

NextCkpt ==
    \/ \E cfg \in CkptConfigs : Construct(1, cfg)
    \/ Step(1)
    \/ \E path \in Paths : \E cap \in SaveCaps : Save(1, path, cap)
    \/ \E path \in Paths : \E junk \in {"resized", "threw"} : Load(1, path, junk)
    \/ Corrupt("ckpt", 1, 0)
    \/ Corrupt("ckpt", 2, 2)
    \/ Tick

SpecCkpt == Init /\ [][NextCkpt]_vars


(***************************************************************************)
(* The command shell: main reads lines from standard input and runs them   *)
(* on one kernel, kernel[1].  A line is a verb and the tokens after it.    *)
(* The population, regions and degree main starts with are scaled down.    *)
(***************************************************************************)
MainConfig ==
    [ population |-> MaxPop - 2, regions |-> MaxRegions, avgConnections |-> 2,
      rewireProb |-> FP(50), stepSize |-> FP(150), simFloor |-> FP(50), seed |-> 0 ]

\* int T = 1000;
RunDefaultT == 1000

\* int logEvery = 10;
RunDefaultLogEvery == 10

\* the shell steps its kernel up to this generation
MaxShellGen == MaxGen + 1

\* a token that reads as a number, and a token that does not
Num(v) == [num |-> TRUE, val |-> v]

Word == [num |-> FALSE, val |-> 0]

\* std::istringstream iss(line) after iss >> cmd
Iss(args) == [args |-> args, fail |-> FALSE]

\* iss >> v, with v holding dflt: a failed stream and the end of the line
\* leave v alone, a token that is no number stores 0 and sets failbit
extract(iss, dflt) ==
    IF iss.fail \/ Len(iss.args) = 0
    THEN [val |-> dflt, iss |-> [iss EXCEPT !.fail = TRUE]]
    ELSE IF Head(iss.args).num
    THEN [val |-> Head(iss.args).val, iss |-> [iss EXCEPT !.args = Tail(@)]]
    ELSE [val |-> 0, iss |-> [iss EXCEPT !.fail = TRUE]]

\* kernelToJson(kernel, traits)
kernelToJson(K, traits) == [kind |-> "json", generation |-> K.generation_, traits |-> traits]

\* logMetrics(kernel, metricsFile): one row, which starts with the generation
logMetrics(K, rows) == Append(rows, K.generation_)

\* the shell after a command on kernel K: it reads on unless the kernel call
\* did not return
shellPc(K) == IF K.pc = "ready" THEN "reading" ELSE K.pc

\* the for loop of run from t on.  t % logEvery with logEvery = 0 is
\* undefined: the division traps (ub = "trap"), or it yields quotient 0 and
\* remainder t (ub = "value")
RECURSIVE runLoop(_, _, _, _, _, _)
runLoop(K, t, T, logEvery, rows, ub) ==
    IF t >= T THEN [kernel |-> K, rows |-> rows, trapped |-> FALSE]
    ELSE LET K1 == step(K)
         IN  IF logEvery = 0 /\ ub = "trap"
             THEN [kernel |-> K1, rows |-> rows, trapped |-> TRUE]
             ELSE LET rem == IF logEvery = 0 THEN t ELSE t % Abs(logEvery)
                  IN  runLoop(K1, t + 1, T, logEvery,
                              IF rem = 0 THEN logMetrics(K1, rows) ELSE rows, ub)

\* the step count of "step": int n = 1; iss >> n; if (n < 1) n = 1;
stepCount(args) ==
    LET n == extract(Iss(args), 1).val
    IN  IF n < 1 THEN 1 ELSE n

\* the configuration "reset" builds from the line
resetConfig(args) ==
    LET e1 == extract(Iss(args), MainConfig.population)
        e2 == extract(e1.iss, MainConfig.regions)
        e3 == extract(e2.iss, MainConfig.avgConnections)
        e4 == extract(e3.iss, MainConfig.rewireProb)
    IN  [MainConfig EXCEPT !.population = e1.val, !.regions = e2.val,
                           !.avgConnections = e3.val, !.rewireProb = e4.val]

\* what a command leaves in the shell
AfterCmd(verb, args, pc, out, helps) ==
    [shell EXCEPT !.pc = pc, !.line = <<verb, args>>, !.out = out, !.helps = helps]

\* Kernel kernel(cfg); printHelp();
ShellStart ==
    /\ shell.pc = "absent"
    /\ kernel[1].pc = "absent"
    /\ kernel' = [kernel EXCEPT ![1] = KernelCtor(MainConfig)]
    /\ shell' = [shell EXCEPT !.pc = "reading", !.helps = 1]
    /\ lastOp' = Op("main", 1, TRUE)
    /\ UNCHANGED <<now, gpu, files, sched, workers, log, economy, validation>>

\* a line without a verb: continue
CmdBlank ==
    /\ shell.pc = "reading"
    /\ shell' = AfterCmd("", <<>>, "reading", <<>>, 0)
    /\ lastOp' = Op("blank", 1, TRUE)
    /\ UNCHANGED <<kernel, now, gpu, files, sched, workers, log, economy, validation>>

\* step N
CmdStep(args) ==
    /\ shell.pc = "reading"
    /\ kernel[1].generation_ + stepCount(args) <= MaxShellGen
    /\ LET K1 == stepN(kernel[1], stepCount(args))
       IN  /\ kernel' = [kernel EXCEPT ![1] = K1]
           /\ shell' = AfterCmd("step", args, "reading", <<kernelToJson(K1, FALSE)>>, 0)
    /\ lastOp' = Op("step", 1, TRUE)
    /\ UNCHANGED <<now, gpu, files, sched, workers, log, economy, validation>>

\* state [traits]
CmdState(traits) ==
    /\ shell.pc = "reading"
    /\ shell' = AfterCmd("state", <<>>, "reading", <<kernelToJson(kernel[1], traits)>>, 0)
    /\ lastOp' = Op("state", 1, TRUE)
    /\ UNCHANGED <<kernel, now, gpu, files, sched, workers, log, economy, validation>>

\* metrics
CmdMetrics ==
    /\ shell.pc = "reading"
    /\ shell' = AfterCmd("metrics", <<>>, "reading",
                         <<[kind |-> "metrics", generation |-> kernel[1].generation_]>>, 0)
    /\ lastOp' = Op("metrics", 1, TRUE)
    /\ UNCHANGED <<kernel, now, gpu, files, sched, workers, log, economy, validation>>

\* reset [N R k p]
CmdReset(args) ==
    /\ shell.pc = "reading"
    /\ LET newCfg == resetConfig(args)
           K1 == reset(kernel[1], newCfg)
       IN  /\ kernel' = [kernel EXCEPT ![1] = K1]
           /\ shell' = AfterCmd("reset", args, shellPc(K1),
                                IF K1.pc = "ready"
                                THEN <<[kind |-> "reset", N |-> newCfg.population,
                                        R |-> newCfg.regions]>>
                                ELSE <<>>, 0)
    /\ lastOp' = Op("reset", 1, TRUE)
    /\ UNCHANGED <<now, gpu, files, sched, workers, log, economy, validation>>

\* run T log
CmdRun(args, ub) ==
    /\ shell.pc = "reading"
    /\ LET e1 == extract(Iss(args), RunDefaultT)
           e2 == extract(e1.iss, RunDefaultLogEvery)
           T == e1.val
           r == runLoop(kernel[1], 0, T, e2.val, <<>>, ub)
       IN  /\ kernel[1].generation_ + T <= MaxShellGen
           /\ kernel' = [kernel EXCEPT ![1] = r.kernel]
           /\ IF r.trapped
              THEN shell' = [AfterCmd("run", args, "crashed", <<>>, 0)
                                EXCEPT !.metricsFile = [exists |-> TRUE, header |-> 0,
                                                        rows |-> <<>>]]
              ELSE shell' = [AfterCmd("run", args, "reading",
                                      <<[kind |-> "completed", T |-> T]>>, 0)
                                EXCEPT !.metricsFile = [exists |-> TRUE, header |-> 1,
                                                        rows |-> r.rows]]
    /\ lastOp' = Op("run", 1, TRUE)
    /\ UNCHANGED <<now, gpu, files, sched, workers, log, economy, validation>>

\* quit
CmdQuit ==
    /\ shell.pc = "reading"
    /\ shell' = AfterCmd("quit", <<>>, "exited", <<>>, 0)
    /\ lastOp' = Op("quit", 1, TRUE)
    /\ UNCHANGED <<kernel, now, gpu, files, sched, workers, log, economy, validation>>

\* help
CmdHelp ==
    /\ shell.pc = "reading"
    /\ shell' = AfterCmd("help", <<>>, "reading", <<>>, 1)
    /\ lastOp' = Op("help", 1, TRUE)
    /\ UNCHANGED <<kernel, now, gpu, files, sched, workers, log, economy, validation>>

\* any other verb: "Unknown command", printHelp()
CmdUnknown(verb) ==
    /\ shell.pc = "reading"
    /\ shell' = AfterCmd(verb, <<>>, "reading", <<>>, 1)
    /\ lastOp' = Op("unknown", 1, TRUE)
    /\ UNCHANGED <<kernel, now, gpu, files, sched, workers, log, economy, validation>>

\* the lines the shell is given
StepLines == {<<>>, <<Num(0)>>, <<Num(2)>>, <<Num(-1)>>, <<Word>>}

ResetLines ==
    { <<>>, <<Word>>, <<Num(0)>>, <<Num(2), Num(0)>>, <<Num(0), Num(0)>>,
      <<Num(2), Num(1), Num(2), Num(FP(300))>>,
      <<Num(MaxPop), Num(MaxRegions), Num(0), Num(0)>>,
      <<Num(1), Num(1), Num(2), Num(ONE)>> }

RunLines ==
    {<<Num(T), Num(L)>> : T \in {0, MaxGen}, L \in {0, 1, MaxGen}}
        \cup {<<Word>>, <<Num(1)>>, <<Num(1), Word>>}

NextShell ==
    \/ ShellStart
    \/ CmdBlank
    \/ \E args \in StepLines : CmdStep(args)
    \/ \E traits \in BOOLEAN : CmdState(traits)
    \/ CmdMetrics
    \/ \E args \in ResetLines : CmdReset(args)
    \/ \E args \in RunLines : CmdRun(args, "trap")
    \/ \E args \in RunLines : CmdRun(args, "value")
    \/ CmdQuit
    \/ CmdHelp
    \/ CmdUnknown("foo")

SpecShell == Init /\ [][NextShell]_vars

(***************************************************************************)
(* The phases of a tick, in the order of the per-tick control flow:        *)
(* (a) economy every 10 ticks, (b) demography, (c) migration every 10      *)
(* ticks, (d) belief update, (e) clustering, (f) cleanup every 5 ticks.    *)
(* The belief phase is Kernel::updateBeliefs in its two passes; the        *)
(* generation is incremented when the phases are done.  Of the other       *)
(* phases the model keeps what they do to alive, region and the neighbour  *)
(* lists.                                                                  *)
(***************************************************************************)
EconomyPeriod == 10

MigrationPeriod == 10

CleanupPeriod == 5

PhaseOrder == <<"economy", "demography", "migration", "belief", "clustering", "cleanup">>

Period(phase) ==
    CASE phase = "economy" -> EconomyPeriod
      [] phase = "migration" -> MigrationPeriod
      [] phase = "cleanup" -> CleanupPeriod
      [] OTHER -> 1

\* every phase is due in every tick
DueAlways(phase, t) == TRUE

\* the phase runs in tick t, the tick that ends with generation t
Due(phase, t) == t % Period(phase) = 0

\* the scheduler after a phase that ran or was skipped
afterPhase(s, phase, ran) ==
    [s EXCEPT !.pos = @ + 1, !.trace = IF ran THEN Append(@, phase) ELSE @]

\* mark_dead(id): the agent stays in the table, flagged dead
mark_dead(K, id) == [K EXCEPT !.agents_[id].alive = FALSE]

\* migration of agent id to region r: region and region index follow
migrate(K, id, r) ==
    LET old == K.agents_[id].region
        K1 == [K EXCEPT !.regionIndex_[old] = EraseRemove(@, id)]
    IN  [K1 EXCEPT !.agents_[id].region = r, !.regionIndex_[r] = Append(@, id)]

\* compaction: dead agents leave the neighbour lists and the region index
compact(K) ==
    LET live(j) == K.agents_[j].alive
    IN  [K EXCEPT !.agents_ = [i \in DOMAIN @ |->
                                  [@[i] EXCEPT !.neighbors = SelectSeq(@, live)]],
                  !.regionIndex_ = [r \in DOMAIN @ |-> SelectSeq(@[r], live)]]

\* the tick that is running or has just ended
TickNo(k) == IF sched.pos = 0 THEN kernel[k].generation_ ELSE kernel[k].generation_ + 1

TickBegin ==
    /\ kernel[1].pc = "ready"
    /\ sched.pos = 0
    /\ kernel[1].generation_ < MaxTick
    /\ sched' = [NoSched EXCEPT !.pos = 1]
    /\ lastOp' = Op("tickBegin", 1, TRUE)
    /\ UNCHANGED <<kernel, now, gpu, files, shell, workers, log, economy, validation>>

EconomyTick ==
    /\ sched.pos = 1
    /\ sched' = afterPhase(sched, "economy", Due("economy", TickNo(1)))
    /\ lastOp' = Op("economy", 1, TRUE)
    /\ UNCHANGED <<kernel, now, gpu, files, shell, workers, log, economy, validation>>

\* mortality flags the sampled agents dead: here one agent, or none
DemographyTick(deaths) ==
    /\ sched.pos = 2
    /\ deaths \subseteq {i \in DOMAIN kernel[1].agents_ : kernel[1].agents_[i].alive}
    /\ Cardinality(deaths) <= 1
    /\ kernel' = [kernel EXCEPT ![1] = IF deaths = {} THEN @
                                       ELSE mark_dead(@, CHOOSE i \in deaths : TRUE)]
    /\ sched' = afterPhase(sched, "demography", TRUE)
    /\ lastOp' = Op("demography", 1, TRUE)
    /\ UNCHANGED <<now, gpu, files, shell, workers, log, economy, validation>>

\* one live agent moves to region r, when migration is due
MigrationTick(id, r) ==
    /\ sched.pos = 3
    /\ id \in DOMAIN kernel[1].agents_
    /\ r \in DOMAIN kernel[1].regionIndex_
    /\ kernel' = [kernel EXCEPT ![1] =
                     IF Due("migration", TickNo(1)) /\ @.agents_[id].alive
                        /\ @.agents_[id].region # r
                     THEN migrate(@, id, r) ELSE @]
    /\ sched' = afterPhase(sched, "migration", Due("migration", TickNo(1)))
    /\ lastOp' = Op("migration", 1, TRUE)
    /\ UNCHANGED <<now, gpu, files, shell, workers, log, economy, validation>>

\* updateBeliefs, first pass: the delta buffer dx
BeliefCompute ==
    /\ sched.pos = 4
    /\ ~sched.pending
    /\ sched' = [sched EXCEPT !.dx = computeDeltas(kernel[1].cfg_, kernel[1].agents_),
                              !.pending = TRUE]
    /\ lastOp' = Op("beliefCompute", 1, TRUE)
    /\ UNCHANGED <<kernel, now, gpu, files, shell, workers, log, economy, validation>>

\* updateBeliefs, second pass: x += dx, B = fastTanh(x)
BeliefApply ==
    /\ sched.pos = 4
    /\ sched.pending
    /\ kernel' = [kernel EXCEPT ![1].agents_ = applyDeltas(@, sched.dx)]
    /\ sched' = [afterPhase(sched, "belief", TRUE) EXCEPT !.dx = <<>>, !.pending = FALSE]
    /\ lastOp' = Op("beliefApply", 1, TRUE)
    /\ UNCHANGED <<now, gpu, files, shell, workers, log, economy, validation>>

ClusteringTick ==
    /\ sched.pos = 5
    /\ sched' = afterPhase(sched, "clustering", TRUE)
    /\ lastOp' = Op("clustering", 1, TRUE)
    /\ UNCHANGED <<kernel, now, gpu, files, shell, workers, log, economy, validation>>

CleanupTick ==
    /\ sched.pos = 6
    /\ kernel' = [kernel EXCEPT ![1] = IF Due("cleanup", TickNo(1)) THEN compact(@) ELSE @]
    /\ sched' = afterPhase(sched, "cleanup", Due("cleanup", TickNo(1)))
    /\ lastOp' = Op("cleanup", 1, TRUE)
    /\ UNCHANGED <<now, gpu, files, shell, workers, log, economy, validation>>

\* ++generation_
TickEnd ==
    /\ sched.pos = Len(PhaseOrder) + 1
    /\ kernel' = [kernel EXCEPT ![1].generation_ = @ + 1]
    /\ sched' = [sched EXCEPT !.pos = 0]
    /\ lastOp' = Op("tickEnd", 1, TRUE)
    /\ UNCHANGED <<now, gpu, files, shell, workers, log, economy, validation>>

TickConfigs ==
    {c \in Configs : /\ c.population \in {2, 3}
                     /\ c.regions = 2
                     /\ c.avgConnections = 2
                     /\ c.rewireProb = 0
                     /\ c.stepSize = FP(150)
                     /\ c.seed = 0}

NextTick ==
    \/ \E cfg \in TickConfigs : Construct(1, cfg)
    \/ TickBegin
    \/ EconomyTick
    \/ \E i \in 0..(MaxPop - 1) : DemographyTick({i})
    \/ DemographyTick({})
    \/ \E i \in 0..(MaxPop - 1) : \E r \in 0..(MaxRegions - 1) : MigrationTick(i, r)
    \/ BeliefCompute
    \/ BeliefApply
    \/ ClusteringTick
    \/ CleanupTick
    \/ TickEnd

SpecTick == Init /\ [][NextTick]_vars

(***************************************************************************)
(* The thread-local engines of the Economy module                          *)
(*   thread_local std::mt19937_64 tl_rng{std::random_device{}()};          *)
(* Two runs of the program, started with the same master seed and the same *)
(* number of worker threads, are followed side by side.                    *)
(***************************************************************************)
MaxDraws == 2       \* each worker draws at most MaxDraws numbers

\* the values std::random_device{}() can return
Entropy == 0..MaxSeed

\* the master seed both runs are started with
MasterSeed == MainConfig.seed

\* tl_rng{std::random_device{}()}: the engine is seeded with the value the
\* random device returned; the master seed is not an input
tl_rng_init(masterSeed, w, entropy) == RngSeed(entropy)

\* the first use of tl_rng in a thread constructs it
ThreadStart(run, w, entropy) ==
    /\ ~workers[run][w].started
    /\ workers' = [workers EXCEPT ![run][w] =
                      [started |-> TRUE,
                       tl_rng |-> tl_rng_init(MasterSeed, w, entropy),
                       drawn |-> <<>>]]
    /\ UNCHANGED <<kernel, now, lastOp, gpu, files, shell, sched, log, economy, validation>>

\* getThreadLocalRNG()(): the worker draws the next number of its engine
WorkerDraw(run, w) ==
    /\ workers[run][w].started
    /\ Len(workers[run][w].drawn) < MaxDraws
    /\ workers' = [workers EXCEPT ![run][w].tl_rng = RngNext(@),
                                  ![run][w].drawn = Append(@, RngNext(workers[run][w].tl_rng))]
    /\ UNCHANGED <<kernel, now, lastOp, gpu, files, shell, sched, log, economy, validation>>

NextWorkers ==
    \/ \E run \in Runs, w \in Workers, entropy \in Entropy : ThreadStart(run, w, entropy)
    \/ \E run \in Runs, w \in Workers : WorkerDraw(run, w)

SpecWorkers == Init /\ [][NextWorkers]_vars

(***************************************************************************)
(* EventLog (utils/EventLog.h, utils/EventLog.cpp)                         *)
(* Threads call the methods of one EventLog object.  A method that takes   *)
(* std::lock_guard<std::mutex> lock(mutex_) is three or more steps: the    *)
(* lock, its body, and the unlock at the end of the scope.  size() is the  *)
(* inline function of the header and is a single read of events_.          *)
(***************************************************************************)
MaxEvents == 2      \* logEvent is called at most MaxEvents times

\* enum class EventType
BIRTH == 0
DEATH == 1

EventTypeNames == <<"BIRTH", "DEATH", "TRADE", "MOVEMENT_FORMED", "MOVEMENT_DISBANDED",
                    "IDEOLOGY_SHIFT", "ECONOMIC_CRISIS", "SYSTEM_CHANGE", "MIGRATION",
                    "CULTURAL_CLUSTER_SPLIT", "HARDSHIP_CRISIS", "DEVELOPMENT_MILESTONE">>

eventTypeToString(type) ==
    IF type + 1 \in DOMAIN EventTypeNames THEN EventTypeNames[type + 1] ELSE "UNKNOWN"

\* struct Event
Event(t, et, aid, rid, det, mag) ==
    [tick |-> t, type |-> et, agent_id |-> aid, region_id |-> rid,
     details |-> det, magnitude |-> mag]

\* the events the threads log: logBirth(0, 1, 0, 0) and logDeath(1, 1, 0, 1)
Events == {Event(0, BIRTH, 1, 0, "parent=0", ONE), Event(1, DEATH, 1, 0, "age=1", ONE)}

\* the line of the CSV file for an event
csvLine(e) ==
    <<e.tick, eventTypeToString(e.type), e.agent_id, e.region_id, e.magnitude, e.details>>

csvHeader == <<"tick,event_type,agent_id,region_id,magnitude,details">>

\* the methods that begin with std::lock_guard<std::mutex> lock(mutex_)
LockedOps == {"init", "logEvent", "exportCSV", "flush", "clear",
              "getEventsByType", "getEventsByTickRange"}

\* the arguments a method is called with
OpArgs(op) ==
    CASE op = "logEvent" -> Events
      [] op = "getEventsByType" -> {DEATH}
      [] op = "getEventsByTickRange" -> {<<1, 1>>}
      [] OTHER -> {<<>>}

\* a thread enters a method of the log
Call(t, op, arg) ==
    /\ log.th[t].pc = "idle"
    /\ op = "logEvent" => log.calls < MaxEvents
    /\ log' = [log EXCEPT !.th[t] = [pc |-> IF op = "size" THEN "size" ELSE "lock",
                                     op |-> op, ev |-> arg, ret |-> <<>>],
                          !.calls = IF op = "logEvent" THEN @ + 1 ELSE @]
    /\ UNCHANGED <<kernel, now, lastOp, gpu, files, shell, sched, workers, economy, validation>>

\* std::lock_guard<std::mutex> lock(mutex_)
Lock(t) ==
    /\ log.th[t].pc = "lock"
    /\ log.mutex_ = 0
    /\ log' = [log EXCEPT !.mutex_ = t, !.th[t].pc = "body"]
    /\ UNCHANGED <<kernel, now, lastOp, gpu, files, shell, sched, workers, economy, validation>>

\* the end of the scope of the lock_guard, on return or on a throw
Unlock(t) ==
    /\ log.th[t].pc = "unlock"
    /\ log' = [log EXCEPT !.mutex_ = 0, !.th[t].pc = "idle"]
    /\ UNCHANGED <<kernel, now, lastOp, gpu, files, shell, sched, workers, economy, validation>>

\* EventLog::init: close, open with trunc, write the header
LogInit(t, opened) ==
    /\ log.th[t].pc = "body" /\ log.th[t].op = "init"
    /\ log' = IF opened
              THEN [log EXCEPT !.log_file_ = [open |-> TRUE, lines |-> csvHeader, flushed |-> 0],
                               !.file_initialized_ = TRUE,
                               !.th[t].pc = "unlock"]
              ELSE [log EXCEPT !.log_file_.open = FALSE,
                               !.th[t].pc = "unlock",
                               !.th[t].ret = <<"runtime_error">>]
    /\ UNCHANGED <<kernel, now, lastOp, gpu, files, shell, sched, workers, economy, validation>>

\* EventLog::logEvent: events_.emplace_back(...) begins
EmplaceBegin(t) ==
    /\ log.th[t].pc = "body" /\ log.th[t].op = "logEvent"
    /\ log' = [log EXCEPT !.emplacing = TRUE, !.th[t].pc = "emplacing"]
    /\ UNCHANGED <<kernel, now, lastOp, gpu, files, shell, sched, workers, economy, validation>>

\* EventLog::logEvent: events_.emplace_back(...) is complete
EmplaceEnd(t) ==
    /\ log.th[t].pc = "emplacing"
    /\ log' = [log EXCEPT !.events_ = Append(@, log.th[t].ev),
                          !.emplacing = FALSE,
                          !.th[t].pc = "write"]
    /\ UNCHANGED <<kernel, now, lastOp, gpu, files, shell, sched, workers, economy, validation>>

\* EventLog::logEvent: if (file_initialized_) log_file_ << ...
WriteLine(t) ==
    /\ log.th[t].pc = "write"
    /\ log' = [log EXCEPT !.log_file_.lines =
                              IF log.file_initialized_ /\ log.log_file_.open
                              THEN Append(@, csvLine(log.th[t].ev)) ELSE @,
                          !.th[t].pc = "unlock"]
    /\ UNCHANGED <<kernel, now, lastOp, gpu, files, shell, sched, workers, economy, validation>>

\* EventLog::exportCSV: the header and one line per event of the buffer
ExportCSV(t) ==
    /\ log.th[t].pc = "body" /\ log.th[t].op = "exportCSV"
    /\ log' = [log EXCEPT !.th[t].ret =
                              csvHeader \o [i \in DOMAIN log.events_ |-> csvLine(log.events_[i])],
                          !.th[t].pc = "unlock"]
    /\ UNCHANGED <<kernel, now, lastOp, gpu, files, shell, sched, workers, economy, validation>>

\* EventLog::flush
Flush(t) ==
    /\ log.th[t].pc = "body" /\ log.th[t].op = "flush"
    /\ log' = [log EXCEPT !.log_file_.flushed =
                              IF log.log_file_.open THEN Len(log.log_file_.lines) ELSE @,
                          !.th[t].pc = "unlock"]
    /\ UNCHANGED <<kernel, now, lastOp, gpu, files, shell, sched, workers, economy, validation>>

\* EventLog::clear
Clear(t) ==
    /\ log.th[t].pc = "body" /\ log.th[t].op = "clear"
    /\ log' = [log EXCEPT !.events_ = <<>>, !.th[t].pc = "unlock"]
    /\ UNCHANGED <<kernel, now, lastOp, gpu, files, shell, sched, workers, economy, validation>>

\* EventLog::getEventsByType
GetEventsByType(t) ==
    /\ log.th[t].pc = "body" /\ log.th[t].op = "getEventsByType"
    /\ LET match(e) == e.type = log.th[t].ev
       IN  log' = [log EXCEPT !.th[t].ret = SelectSeq(log.events_, match),
                              !.th[t].pc = "unlock"]
    /\ UNCHANGED <<kernel, now, lastOp, gpu, files, shell, sched, workers, economy, validation>>

\* EventLog::getEventsByTickRange
GetEventsByTickRange(t) ==
    /\ log.th[t].pc = "body" /\ log.th[t].op = "getEventsByTickRange"
    /\ LET match(e) == e.tick >= log.th[t].ev[1] /\ e.tick <= log.th[t].ev[2]
       IN  log' = [log EXCEPT !.th[t].ret = SelectSeq(log.events_, match),
                              !.th[t].pc = "unlock"]
    /\ UNCHANGED <<kernel, now, lastOp, gpu, files, shell, sched, workers, economy, validation>>

\* std::size_t size() const { return events_.size(); }  The read takes no
\* lock.  When it runs while another thread's emplace_back is in progress the
\* two accesses are a data race, and the value read is any size
Size(t, raced) ==
    /\ log.th[t].pc = "size"
    /\ raced \in (IF log.emplacing THEN 0..MaxEvents ELSE {Len(log.events_)})
    /\ log' = [log EXCEPT !.th[t].ret = <<raced>>, !.th[t].pc = "idle"]
    /\ UNCHANGED <<kernel, now, lastOp, gpu, files, shell, sched, workers, economy, validation>>

NextLog ==
    \/ \E t \in Threads, op \in LockedOps \cup {"size"} :
          \E arg \in OpArgs(op) : Call(t, op, arg)
    \/ \E t \in Threads : Lock(t)
    \/ \E t \in Threads : Unlock(t)
    \/ \E t \in Threads, opened \in BOOLEAN : LogInit(t, opened)
    \/ \E t \in Threads : EmplaceBegin(t)
    \/ \E t \in Threads : EmplaceEnd(t)
    \/ \E t \in Threads : WriteLine(t)
    \/ \E t \in Threads : ExportCSV(t)
    \/ \E t \in Threads : Flush(t)
    \/ \E t \in Threads : Clear(t)
    \/ \E t \in Threads : GetEventsByType(t)
    \/ \E t \in Threads : GetEventsByTickRange(t)
    \/ \E t \in Threads, raced \in 0..MaxEvents : Size(t, raced)

SpecLog == Init /\ [][NextLog]_vars

(***************************************************************************)
(* Kernels whose metrics are computed                                      *)
(***************************************************************************)
MaxMetricsSeed == 16    \* cfg.seed ranges over 0..MaxMetricsSeed

MetricsConfigs ==
    [ population : {1, 2, 3},
      regions : {MaxRegions},
      avgConnections : {0, 2},
      rewireProb : {0},
      stepSize : {FP(150)},
      simFloor : {FP(50)},
      seed : 0..MaxMetricsSeed ]

\* auto m = kernel.computeMetrics();
ComputeMetrics(k) ==
    /\ kernel[k].pc = "ready"
    /\ lastOp' = [op |-> "computeMetrics", k |-> k, ok |-> TRUE, path |-> "", reads |-> 0,
                  ioError |-> FALSE, metrics |-> computeMetrics(kernel[k])]
    /\ UNCHANGED <<kernel, now, gpu, files, shell, sched, workers, log, economy, validation>>

NextMetrics ==
    \/ \E cfg \in MetricsConfigs : Construct(1, cfg)
    \/ Step(1)
    \/ ComputeMetrics(1)

SpecMetrics == Init /\ [][NextMetrics]_vars

(***************************************************************************)
(* Economy: the price update of Economy::update                            *)
(*   if (demand > supply) price *= (1 + PRICE_ADJUSTMENT_RATE)             *)
(*   else                 price *= (1 - PRICE_ADJUSTMENT_RATE * 0.5)       *)
(* followed by the clamp to the price bounds 0.01 and 100.0.               *)
(***************************************************************************)
MaxUpdates == 3     \* economy.update is called at most MaxUpdates times

PRICE_ADJUSTMENT_RATE == FP(50)

PRICE_MIN == FP(10)

PRICE_MAX == 100 * ONE

\* the regions and goods of the economy
EconRegions == 0..(MaxRegions - 1)

EconGoods == {0}

Cells == EconRegions \X EconGoods

\* the prices an economy is followed from: the unit price, and prices at and
\* next to the two bounds, which long runs of updates lead to
StartPrices == {PRICE_MIN, PRICE_MIN + 1, ONE, PRICE_MAX - ONE, PRICE_MAX}

\* the price update without the clamp
adjustPriceUnclamped(price, demand, supply) ==
    IF demand > supply
    THEN Mul(price, ONE + PRICE_ADJUSTMENT_RATE)
    ELSE Mul(price, ONE - PRICE_ADJUSTMENT_RATE \div 2)

\* the price of one good in one region after an update
adjustPrice(price, demand, supply) ==
    Clamp(IF demand > supply
          THEN Mul(price, ONE + PRICE_ADJUSTMENT_RATE)
          ELSE Mul(price, ONE - PRICE_ADJUSTMENT_RATE \div 2),
          PRICE_MIN, PRICE_MAX)

\* economy.init(...)
EconomyInit(prices) ==
    /\ economy.pc = "absent"
    /\ economy' = [NoEconomy EXCEPT !.pc = "ready", !.prices = prices]
    /\ lastOp' = Op("economy.init", 0, TRUE)
    /\ UNCHANGED <<kernel, now, gpu, files, shell, sched, workers, log, validation>>

\* economy.update(...): the price update of every region and good
EconomyUpdate(demand, supply) ==
    /\ economy.pc = "ready"
    /\ economy.updates < MaxUpdates
    /\ economy' = [economy EXCEPT
                      !.prices = [c \in Cells |-> adjustPrice(@[c], demand[c], supply[c])],
                      !.updates = @ + 1]
    /\ lastOp' = Op("economy.update", 0, TRUE)
    /\ UNCHANGED <<kernel, now, gpu, files, shell, sched, workers, log, validation>>

\* the demand and supply of a good in a region
Quantities == {0, ONE}

NextEconomy ==
    \/ \E prices \in [Cells -> StartPrices] : EconomyInit(prices)
    \/ \E demand \in [Cells -> Quantities], supply \in [Cells -> Quantities] :
          EconomyUpdate(demand, supply)

SpecEconomy == Init /\ [][NextEconomy]_vars

(***************************************************************************)
(* Validation.h: the validation::check functions.  VALIDATE_ENABLED is 1   *)
(* in a build without NDEBUG (debug) and 0 in a build with it (release).   *)
(* A double is <<"finite", v>> with v in fixed point, or a NaN or infinity. *)
(***************************************************************************)
MaxChecks == 2      \* at most MaxChecks validation calls are followed

Dbl(v) == <<"finite", v>>

NaN == <<"nan", 0>>

PosInf == <<"inf", 0>>

NegInf == <<"-inf", 0>>

NonFinite == {NaN, PosInf, NegInf}

VALIDATE_ENABLED(build) == IF build = "debug" THEN 1 ELSE 0

\* std::isfinite
isFinite(value) == value[1] = "finite"

\* value < bound, for a double that may be an infinity or a NaN
Less(value, bound) == IF isFinite(value) THEN value[2] < bound ELSE value = NegInf

\* value > bound
Greater(value, bound) == IF isFinite(value) THEN value[2] > bound ELSE value = PosInf

\* checkFinite: TRUE when the call throws std::runtime_error
checkFinite(build, value) ==
    VALIDATE_ENABLED(build) = 1 /\ ~isFinite(value)

\* checkRange
checkRange(build, value, min, max) ==
    VALIDATE_ENABLED(build) = 1
    /\ (~isFinite(value) \/ Less(value, min) \/ Greater(value, max))

\* checkBeliefs: the loop over the count beliefs
checkBeliefs(build, beliefs) ==
    VALIDATE_ENABLED(build) = 1
    /\ \E i \in DOMAIN beliefs :
          ~isFinite(beliefs[i]) \/ Less(beliefs[i], -ONE) \/ Greater(beliefs[i], ONE)

\* checkNonNegative
checkNonNegative(build, value) ==
    VALIDATE_ENABLED(build) = 1 /\ (~isFinite(value) \/ Less(value, 0))

\* checkTradeConservation(total_exports, total_imports, tolerance = 0.01)
checkTradeConservation(build, total_exports, total_imports, tolerance) ==
    LET imbalance == Abs(total_exports - total_imports)
    IN  VALIDATE_ENABLED(build) = 1
        /\ imbalance * ONE > tolerance * Max2(total_exports, total_imports)

\* the program is compiled with or without NDEBUG
Build(ndebug) ==
    /\ validation.build = "none"
    /\ validation' = [validation EXCEPT !.build = IF ndebug THEN "release" ELSE "debug"]
    /\ lastOp' = Op("build", 0, TRUE)
    /\ UNCHANGED <<kernel, now, gpu, files, shell, sched, workers, log, economy>>

\* a call of a check function: the arguments are passed by value (beliefs by
\* pointer to const), so the caller's values are what they were before
Validate(fn, args, threw) ==
    /\ validation.build # "none"
    /\ validation.calls < MaxChecks
    /\ validation' = [validation EXCEPT !.fn = fn, !.args = args, !.threw = threw,
                                        !.after = args, !.calls = @ + 1]
    /\ lastOp' = Op(fn, 0, ~threw)

\* the doubles the check functions are called with
Doubles == NonFinite \cup {Dbl(v) : v \in {-ONE - 1, -ONE, -1, 0, ONE, ONE + 1}}

CheckFinite(value) ==
    /\ Validate("checkFinite", <<value>>, checkFinite(validation.build, value))
    /\ UNCHANGED <<kernel, now, gpu, files, shell, sched, workers, log, economy>>

CheckRange(value, min, max) ==
    /\ Validate("checkRange", <<value, Dbl(min), Dbl(max)>>,
                checkRange(validation.build, value, min, max))
    /\ UNCHANGED <<kernel, now, gpu, files, shell, sched, workers, log, economy>>

CheckBeliefs(beliefs) ==
    /\ Validate("checkBeliefs", beliefs, checkBeliefs(validation.build, beliefs))
    /\ UNCHANGED <<kernel, now, gpu, files, shell, sched, workers, log, economy>>

CheckNonNegative(value) ==
    /\ Validate("checkNonNegative", <<value>>, checkNonNegative(validation.build, value))
    /\ UNCHANGED <<kernel, now, gpu, files, shell, sched, workers, log, economy>>

NextValidation ==
    \/ \E ndebug \in BOOLEAN : Build(ndebug)
    \/ \E value \in Doubles : CheckFinite(value)
    \/ \E value \in Doubles : CheckRange(value, 0, ONE)
    \/ \E b0 \in Doubles, b1 \in Doubles : CheckBeliefs(<<b0, b1>>)
    \/ \E value \in Doubles : CheckNonNegative(value)

SpecValidation == Init /\ [][NextValidation]_vars

(***************************************************************************)
(* Trade: every region ships a volume of each good to a trade partner some *)
(* hops away; 2% of the shipment is lost per hop.  After the trade the     *)
(* conservation check is called with the totals of the good.               *)
(***************************************************************************)
MaxHops == 2        \* a shipment travels at most MaxHops hops

TRANSPORT_COST == FP(20)

TRADE_TOLERANCE == FP(10)

\* the volumes a region ships
Volumes == {0, ONE, 100 * ONE}

\* what is lost of a shipment over the hops
transportLoss(volume, hops) == Mul(volume, hops * TRANSPORT_COST)

\* economy.update(...): the trade phase, for every good
Trade(volume, hops) ==
    /\ economy.pc = "ready"
    /\ economy.updates < MaxUpdates
    /\ LET exports == [g \in EconGoods |->
                          SumOver(EconRegions, [r \in EconRegions |-> volume[r][g]])]
           loss == [g \in EconGoods |->
                       SumOver(EconRegions,
                               [r \in EconRegions |-> transportLoss(volume[r][g], hops[r])])]
       IN  economy' = [economy EXCEPT !.exports = exports,
                                      !.loss = loss,
                                      !.imports = [g \in EconGoods |-> exports[g] - loss[g]],
                                      !.updates = @ + 1]
    /\ lastOp' = Op("trade", 0, TRUE)
    /\ UNCHANGED <<kernel, now, gpu, files, shell, sched, workers, log, validation>>

\* validation::checkTradeConservation(total_exports, total_imports)
CheckTradeConservation(g) ==
    /\ economy.pc = "ready"
    /\ g \in DOMAIN economy.exports
    /\ Validate("checkTradeConservation",
                <<Dbl(economy.exports[g]), Dbl(economy.imports[g])>>,
                checkTradeConservation(validation.build, economy.exports[g],
                                       economy.imports[g], TRADE_TOLERANCE))
    /\ UNCHANGED <<kernel, now, gpu, files, shell, sched, workers, log, economy>>

NextTrade ==
    \/ \E ndebug \in BOOLEAN : Build(ndebug)
    \/ EconomyInit([c \in Cells |-> ONE])
    \/ \E volume \in [EconRegions -> [EconGoods -> Volumes]], hops \in [EconRegions -> 0..MaxHops] :
          Trade(volume, hops)
    \/ \E g \in EconGoods : CheckTradeConservation(g)

SpecTrade == Init /\ [][NextTrade]_vars

(***************************************************************************)
(* Shorthands of the properties                                            *)
(***************************************************************************)
Ready(k) == kernel[k].pc = "ready"

Agents(k) == kernel[k].agents_

Ids(k) == DOMAIN kernel[k].agents_

\* the transition is one or more ticks of kernel k
Ticked(k) ==
    /\ kernel[k].pc = "ready"
    /\ kernel'[k].pc = "ready"
    /\ kernel'[k].generation_ > kernel[k].generation_

\* agent i of kernel k has a neighbour outside its ring-lattice neighbourhood
HasRewiredEdge(k) ==
    \E i \in Ids(k) : \E j \in Range(Agents(k)[i].neighbors) :
        LET N == kernel[k].cfg_.population
        IN  /\ (j - i + N) % N \notin 1..halfK(kernel[k].cfg_)
            /\ (i - j + N) % N \notin 1..halfK(kernel[k].cfg_)

(***************************************************************************)
(* C1: after construction and after every tick, every belief component     *)
(* B[k] of every agent lies in [-1, 1].                                    *)
(***************************************************************************)
C1_BeliefsWithinUnitInterval ==
    \A k \in KIds : Ready(k) =>
        \A i \in Ids(k) : \A d \in Dims :
            /\ Agents(k)[i].B[d] >= -ONE
            /\ Agents(k)[i].B[d] <= ONE

(***************************************************************************)
(* C2: the neighbour graph is undirected in every state after construction *)
(* and after every tick: j is a neighbour of i iff i is a neighbour of j.  *)
(***************************************************************************)
C2_GraphSymmetric ==
    \A k \in KIds : Ready(k) =>
        \A i \in Ids(k) : \A j \in Ids(k) :
            (j \in Range(Agents(k)[i].neighbors)) <=> (i \in Range(Agents(k)[j].neighbors))

\* a kernel whose graph holds a rewired edge has been stepped
C2_Witness ==
    \E k \in KIds : Ready(k) /\ kernel[k].generation_ >= 1 /\ HasRewiredEdge(k)

(***************************************************************************)
(* C4: population is conserved by ticks: a tick leaves the agent table     *)
(* with exactly cfg_.population agents, all alive, each in its region, and *)
(* the region lists as they were.                                          *)
(***************************************************************************)
C4_PopulationConserved ==
    [][\A k \in KIds : Ticked(k) =>
          /\ DOMAIN kernel'[k].agents_ = DOMAIN kernel[k].agents_
          /\ VLen(kernel'[k].agents_) = kernel'[k].cfg_.population
          /\ \A i \in DOMAIN kernel'[k].agents_ :
                /\ kernel'[k].agents_[i].alive
                /\ kernel'[k].agents_[i].region = kernel[k].agents_[i].region
          /\ kernel'[k].regionIndex_ = kernel[k].regionIndex_]_vars

\* a kernel of several agents in two inhabited regions has been stepped twice
C4_Witness ==
    \E k \in KIds :
        /\ Ready(k)
        /\ kernel[k].generation_ >= 2
        /\ VLen(Agents(k)) >= 3
        /\ \E r1, r2 \in DOMAIN kernel[k].regionIndex_ :
              /\ r1 # r2
              /\ kernel[k].regionIndex_[r1] # <<>>
              /\ kernel[k].regionIndex_[r2] # <<>>

(***************************************************************************)
(* C5: the region index agrees with the agent table: every live agent id   *)
(* occurs in exactly one region list, the list of its region, exactly      *)
(* once, and every region list has as many entries as the region has live  *)
(* agents.                                                                 *)
(***************************************************************************)
Occurrences(seq, v) == Cardinality({p \in DOMAIN seq : seq[p] = v})

C6_ZeroStepSizeIdempotent ==
    [][\A k \in KIds : (Ticked(k) /\ kernel[k].cfg_.stepSize = 0) =>
          \A i \in DOMAIN kernel[k].agents_ :
              /\ kernel'[k].agents_[i].x = kernel[k].agents_[i].x
              /\ kernel'[k].agents_[i].B = kernel[k].agents_[i].B]_vars

\* a kernel with stepSize = 0 whose agents have neighbours with other beliefs
\* has been updated twice
C6_Witness ==
    \E k \in KIds :
        /\ Ready(k)
        /\ kernel[k].cfg_.stepSize = 0
        /\ kernel[k].generation_ >= 2
        /\ \E i \in Ids(k) : \E j \in Range(Agents(k)[i].neighbors) :
              Agents(k)[j].B # Agents(k)[i].B


C7_TwoPhaseUpdate ==
    (gpu.phase = "running" /\ gpu.done = DOMAIN gpu.B) =>
        gpu.B = gpuFromSnapshot([i \in DOMAIN gpu.B |-> kernel[gpu.k].agents_[i].B],
                                kernel[gpu.k].agents_, gpu.stepSize, gpu.simFloor)


(***************************************************************************)
(* Checkpoint properties                                                   *)
(***************************************************************************)
\* the file holds every item its header announces, and nothing else
IsWholeCheckpoint(file) ==
    /\ file.exists
    /\ Len(file.data) >= HeaderLen
    /\ LET r == loadCheckpointAnyVersion(NoKernel, file, "resized")
       IN  /\ ~r.ioError
           /\ Len(file.data) = HeaderLen + r.reads + file.data[4][2] + file.data[5][2]

WithoutTimestamp(F) == [F EXCEPT ![HeaderLen] = Item("timestamp", 0)]

BadHeader(file) ==
    /\ file.exists
    /\ \/ Len(file.data) >= 1 /\ file.data[1][2] # CHECKPOINT_MAGIC
       \/ Len(file.data) >= 2 /\ file.data[2][2] # CHECKPOINT_VERSION

(***************************************************************************)
(* C8: saving a kernel and loading the file into a kernel leaves that      *)
(* kernel with the serialized state of the saved one: after a load that    *)
(* returned true from a whole checkpoint file, the kernel's generation,    *)
(* agents, neighbour lists, region index and economy records are the ones  *)
(* the file holds (the timestamp aside).                                   *)
(***************************************************************************)
C8_RoundTrip ==
    ( /\ lastOp.op = "load"
      /\ lastOp.ok
      /\ IsWholeCheckpoint(files[lastOp.path])
      /\ ~BadHeader(files[lastOp.path]) )
    => WithoutTimestamp(checkpointImage(kernel[lastOp.k], 0))
           = WithoutTimestamp(files[lastOp.path].data)

(***************************************************************************)
(* C9: a load from a file whose header magic is not 0x45435356 or whose    *)
(* version is not 1 returns false, reads no agent or region data, and      *)
(* leaves the kernel as it was.                                            *)
(***************************************************************************)
C9_BadHeaderRefused ==
    [][ (lastOp'.op = "load" /\ BadHeader(files'[lastOp'.path]))
        => (~lastOp'.ok /\ lastOp'.reads = 0 /\ kernel' = kernel) ]_vars

\* a load has just refused a file that holds agent data, has the right magic
\* and the wrong version
C9_Witness ==
    /\ lastOp.op = "load"
    /\ ~lastOp.ok
    /\ lastOp.reads = 0
    /\ files[lastOp.path].exists
    /\ Len(files[lastOp.path].data) > HeaderLen
    /\ files[lastOp.path].data[1][2] = CHECKPOINT_MAGIC
    /\ files[lastOp.path].data[2][2] # CHECKPOINT_VERSION
    /\ kernel[lastOp.k].generation_ >= 1

(***************************************************************************)
(* C10: a save or load whose file cannot be opened, or on which a read or  *)
(* a write fails, returns false and leaves the kernel as it was.           *)
(***************************************************************************)
C10_IoErrorsReturnFalse ==
    [][ (lastOp'.op \in {"save", "load"} /\ lastOp'.ioError)
        => (~lastOp'.ok /\ kernel' = kernel) ]_vars


(***************************************************************************)
(* Properties of the shell                                                 *)
(***************************************************************************)
Verb(sh) == sh.line[1]

Args(sh) == sh.line[2]

AllNumbers(args) == \A i \in DOMAIN args : args[i].num

\* the line is a command error: an unknown verb, or step, reset or run with
\* an argument that is no number
CommandError(sh) ==
    \/ Verb(sh) \notin {"", "step", "state", "metrics", "reset", "run", "quit", "help"}
    \/ Verb(sh) \in {"step", "reset", "run"} /\ ~AllNumbers(Args(sh))

(***************************************************************************)
(* C11: a configuration with population = 0 or regions = 0 is rejected     *)
(* when a kernel is constructed or reset: no kernel ever holds such a      *)
(* configuration, so none can be stepped or asked for its metrics.         *)
(***************************************************************************)
C11_InvalidConfigRejected ==
    \A k \in KIds : kernel[k].pc # "absent" =>
        /\ kernel[k].cfg_.population > 0
        /\ kernel[k].cfg_.regions > 0

(***************************************************************************)
(* C12: in every reachable state every agent's region is below the number  *)
(* of regions and every neighbour id below the number of agents, and no    *)
(* index out of range is ever used on the agent table or the region index. *)
(***************************************************************************)
C12_IndicesInRange ==
    \A k \in KIds : kernel[k].pc # "absent" =>
        /\ kernel[k].pc # "undefined"
        /\ \A i \in Ids(k) :
              /\ Agents(k)[i].region < kernel[k].cfg_.regions
              /\ \A j \in Range(Agents(k)[i].neighbors) : j < VLen(Agents(k))

(***************************************************************************)
(* C13: a line that is a command error leaves the kernel as it was, prints *)
(* the help, and the shell goes on reading.                                *)
(***************************************************************************)
C13_CommandErrorsHarmless ==
    [][ (shell'.pc # "absent" /\ CommandError(shell'))
        => (kernel' = kernel /\ shell'.helps >= 1 /\ shell'.pc = "reading") ]_vars

(***************************************************************************)
(* C14: "step N" with a number N >= 0 advances the generation by exactly N *)
(* and prints exactly one JSON snapshot, taken after the last tick.        *)
(***************************************************************************)
C14_StepAdvancesN ==
    [][ ( /\ Verb(shell') = "step"
          /\ Len(Args(shell')) = 1
          /\ Args(shell')[1].num
          /\ Args(shell')[1].val >= 0 )
        => ( /\ kernel'[1].generation_ = kernel[1].generation_ + Args(shell')[1].val
             /\ shell'.out = <<kernelToJson(kernel'[1], FALSE)>> ) ]_vars

(***************************************************************************)
(* C15: "run T L" with T >= 0 terminates, advances the generation by       *)
(* exactly T, and leaves a metrics file with one header row and, when L    *)
(* divides T, exactly T / L data rows.                                     *)
(***************************************************************************)
C15_RunAdvancesAndLogs ==
    [][ ( /\ Verb(shell') = "run"
          /\ Len(Args(shell')) = 2
          /\ AllNumbers(Args(shell'))
          /\ Args(shell')[1].val >= 0 )
        => LET T == Args(shell')[1].val
               L == Args(shell')[2].val
           IN  /\ shell'.pc = "reading"
               /\ kernel'[1].generation_ = kernel[1].generation_ + T
               /\ shell'.metricsFile.header = 1
               /\ (L > 0 /\ T % L = 0) => Len(shell'.metricsFile.rows) = T \div L ]_vars

(***************************************************************************)
(* C16: after a reset that returns, whatever ran before, the generation is *)
(* 0, the agent table holds the agents 0..N-1, the region index holds R    *)
(* lists, and the neighbour lists are those of a graph built from scratch  *)
(* for the new configuration.                                              *)
(***************************************************************************)
C16_ResetRebuilds ==
    [][ (Verb(shell') = "reset" /\ kernel'[1].pc = "ready")
        => LET cfg == resetConfig(Args(shell'))
               K == kernel'[1]
           IN  /\ K.cfg_ = cfg
               /\ K.generation_ = 0
               /\ DOMAIN K.agents_ = 0..(cfg.population - 1)
               /\ \A i \in DOMAIN K.agents_ : K.agents_[i].id = i
               /\ DOMAIN K.regionIndex_ = 0..(cfg.regions - 1)
               /\ \A i \in DOMAIN K.agents_ :
                     K.agents_[i].neighbors = KernelCtor(cfg).agents_[i].neighbors ]_vars

\* a reset with all four arguments has returned, after a run that logged
\* rows, and the graph it built has a rewired edge
C16_Witness ==
    /\ Verb(shell) = "reset"
    /\ Len(Args(shell)) = 4
    /\ shell.pc = "reading"
    /\ Len(shell.metricsFile.rows) >= 1
    /\ kernel[1].cfg_.population = 2
    /\ kernel[1].cfg_.rewireProb = FP(300)
    /\ kernel[1].generation_ = 0


(***************************************************************************)
(* Properties of the tick                                                  *)
(***************************************************************************)
\* the agent table with the dead agents taken out of every neighbour list
AliveNeighboursOnly(ag) ==
    [i \in DOMAIN ag |-> [ag[i] EXCEPT !.neighbors = SelectSeq(@, LAMBDA j : ag[j].alive)]]

PhaseIndex(phase) == CHOOSE n \in DOMAIN PhaseOrder : PhaseOrder[n] = phase

\* the step changes alive, region or a neighbour list of an agent of kernel k
MutatesTable(k) ==
    \E i \in Ids(k) :
        \/ kernel'[k].agents_[i].alive # Agents(k)[i].alive
        \/ kernel'[k].agents_[i].region # Agents(k)[i].region
        \/ kernel'[k].agents_[i].neighbors # Agents(k)[i].neighbors

(***************************************************************************)
(* C17: dead agents are excluded from the belief update: an agent whose    *)
(* alive flag is false keeps its x and B through every step, and the       *)
(* deltas of the living agents are those their living neighbours give.     *)
(***************************************************************************)
C17_DeadAgentsExcluded ==
    /\ [][ \A i \in Ids(1) :
              (Ready(1) /\ kernel'[1].pc = "ready" /\ ~Agents(1)[i].alive)
              => /\ kernel'[1].agents_[i].x = Agents(1)[i].x
                 /\ kernel'[1].agents_[i].B = Agents(1)[i].B ]_vars
    /\ [][ (~sched.pending /\ sched'.pending)
           => \A i \in Ids(1) :
                 Agents(1)[i].alive
                 => sched'.dx[i] = computeDeltas(kernel[1].cfg_,
                                                 AliveNeighboursOnly(Agents(1)))[i] ]_vars

CommonDraws(w) == 1..Min2(Len(workers[1][w].drawn), Len(workers[2][w].drawn))

\* C19: every worker's random stream is a function of the master seed, the
\* worker's index and the tick: in two runs with the same master seed and
\* the same number of workers, every worker starts from the same engine
\* state and draws the same numbers.
C19_WorkerStreamsDeterministic ==
    \A w \in Workers :
        (workers[1][w].started /\ workers[2][w].started)
        => /\ Len(workers[1][w].drawn) = Len(workers[2][w].drawn)
              => workers[1][w].tl_rng = workers[2][w].tl_rng
           /\ \A n \in CommonDraws(w) : workers[1][w].drawn[n] = workers[2][w].drawn[n]


(***************************************************************************)
(* Properties of the event log                                             *)
(***************************************************************************)

\* thread t reads or writes events_ or log_file_ in this step
Accesses(t) ==
    /\ log.th[t].pc \in {"body", "emplacing", "write", "size"}
    /\ log'.th[t].pc # log.th[t].pc

\* thread t is inside logEvent, between its lock and its unlock
InLogEvent(t) ==
    /\ log.th[t].op = "logEvent"
    /\ log.th[t].pc \in {"body", "emplacing", "write", "unlock"}

\* C20: EventLog is thread-safe: under every interleaving of calls, a thread
\* reads or writes the event buffer or the log file only while it holds the
\* mutex, and a logEvent call appends exactly its one event: from its lock
\* to its unlock the buffer changes once, by that append.
C20_EventLogThreadSafe ==
    /\ [][ \A t \in Threads : Accesses(t) => log.mutex_ = t ]_vars
    /\ [][ \A t \in Threads :
              (InLogEvent(t) /\ log'.events_ # log.events_)
              => /\ log.th[t].pc = "emplacing"
                 /\ log'.th[t].pc = "write"
                 /\ log'.events_ = Append(log.events_, log.th[t].ev) ]_vars


(***************************************************************************)
(* Properties of the metrics                                               *)
(***************************************************************************)

\* C21: for a kernel with at least one agent, after any number of steps,
\* computeMetrics returns avgOpenness and avgConformity in [0, 1] and
\* polarizationMean in [0, 2].
C21_MetricsWithinBounds ==
    (lastOp.op = "computeMetrics" /\ VLen(Agents(lastOp.k)) >= 1)
    => LET m == lastOp.metrics
       IN  /\ 0 <= m.avgOpenness /\ m.avgOpenness <= ONE
           /\ 0 <= m.avgConformity /\ m.avgConformity <= ONE
           /\ 0 <= m.polarizationMean /\ m.polarizationMean <= 2 * ONE


(***************************************************************************)
(* Properties of the economy                                               *)
(***************************************************************************)

OutOfRange(value, lo, hi) ==
    \/ value[1] # "finite"
    \/ value[2] < lo
    \/ value[2] > hi

\* the value brought into [lo, hi]; a NaN becomes lo
Clamped(value, lo, hi) ==
    IF value[1] \in {"nan", "-inf"} THEN <<"finite", lo>>
    ELSE IF value[1] = "inf" THEN <<"finite", hi>>
    ELSE <<"finite", Clamp(value[2], lo, hi)>>

\* the last call was given a value its function does not accept
Offending ==
    CASE validation.fn = "checkFinite" -> validation.args[1][1] # "finite"
      [] validation.fn = "checkRange" ->
            OutOfRange(validation.args[1], validation.args[2][2], validation.args[3][2])
      [] validation.fn = "checkNonNegative" ->
            validation.args[1][1] # "finite" \/ validation.args[1][2] < 0
      [] validation.fn = "checkBeliefs" ->
            \E i \in DOMAIN validation.args : OutOfRange(validation.args[i], -ONE, ONE)
      [] OTHER -> FALSE

\* the arguments of the last call, every range-checked value brought into range
ClampedArgs ==
    CASE validation.fn = "checkRange" ->
            <<Clamped(validation.args[1], validation.args[2][2], validation.args[3][2]),
              validation.args[2], validation.args[3]>>
      [] validation.fn = "checkNonNegative" ->
            <<IF validation.args[1][1] = "inf" THEN validation.args[1]
              ELSE IF validation.args[1][1] = "finite"
                   THEN <<"finite", Max2(validation.args[1][2], 0)>>
                   ELSE <<"finite", 0>> >>
      [] validation.fn = "checkBeliefs" ->
            [i \in DOMAIN validation.args |-> Clamped(validation.args[i], -ONE, ONE)]
      [] OTHER -> validation.args

\* C26: with validation enabled (debug) a check function raises an error for
\* every non-finite or out-of-range value and for no valid value; with
\* validation disabled (release) it raises none, the offending value is
\* clamped into range and the warning counter grows by one.
C26_FatalInDebugClampInRelease ==
    /\ [](validation.build = "debug" => (validation.threw <=> Offending))
    /\ [](validation.build = "release" => ~validation.threw)
    /\ [][ (validation.build = "release" /\ validation'.calls = validation.calls + 1)
           => LET offending == Offending'
                  clamped == ClampedArgs'
              IN  /\ offending
                     => /\ validation'.warnings = validation.warnings + 1
                        /\ validation'.after = clamped
                  /\ ~offending
                     => /\ validation'.warnings = validation.warnings
                        /\ validation'.after = validation'.args ]_vars


(***************************************************************************)
(* Properties of the trade                                                 *)
(***************************************************************************)

\* exports, imports and loss of good g differ by more than 1% of the larger
\* of exports and imports
BeyondTolerance(g) ==
    Abs(economy.exports[g] - economy.imports[g] - economy.loss[g]) * ONE
        > FP(10) * Max2(economy.exports[g], economy.imports[g])

\* C23: after every economy tick and for every good, exports minus imports
\* minus transport loss is within 1% of the larger of exports and imports,
\* and the debug conservation check raises an error exactly when that bound
\* is exceeded: a trade whose only imbalance is the transport loss passes.
C23_TradeConservedUpToLoss ==
    /\ \A g \in DOMAIN economy.exports : ~BeyondTolerance(g)
    /\ (lastOp.op = "checkTradeConservation" /\ validation.build = "debug")
       => \E g \in DOMAIN economy.exports :
             /\ validation.args = <<Dbl(economy.exports[g]), Dbl(economy.imports[g])>>
             /\ validation.threw <=> BeyondTolerance(g)


(***************************************************************************)
(* Properties of the belief state                                          *)
(***************************************************************************)

\* C24: after construction and after every belief update, on the CPU path and
\* on the GPU path, every agent has B[k] = fastTanh(x[k]) on every axis, and a
\* step that changes an agent's B changes its x as well.
C24_BeliefIsTanhOfState ==
    /\ [](\A k \in KIds :
             Ready(k) => \A i \in Ids(k) : \A d \in Dims :
                            Agents(k)[i].B[d] = fastTanh(Agents(k)[i].x[d]))
    /\ [][ \A k \in KIds :
              (Ready(k) /\ kernel'[k].pc = "ready" /\ DOMAIN kernel'[k].agents_ = Ids(k)
               /\ kernel'[k].generation_ # 0)
              => \A i \in Ids(k) :
                    kernel'[k].agents_[i].B # Agents(k)[i].B
                    => kernel'[k].agents_[i].x # Agents(k)[i].x ]_vars


(***************************************************************************)
(* Properties of the neighbour graph                                       *)
(***************************************************************************)

\* C25: after graph construction, for every population, degree (also a degree
\* of at least the population) and rewire probability, no neighbour list
\* holds its agent's own id and none holds an id twice.
C25_NoSelfLoopsNoDuplicates ==
    \A k \in KIds : Ready(k) =>
        \A i \in Ids(k) :
            /\ i \notin Range(Agents(k)[i].neighbors)
            /\ \A p, q \in DOMAIN Agents(k)[i].neighbors :
                  p # q => Agents(k)[i].neighbors[p] # Agents(k)[i].neighbors[q]

\* a graph of degree at least its population, with a rewired edge, was built
C25_Witness ==
    \E k \in KIds :
        /\ Ready(k)
        /\ kernel[k].cfg_.avgConnections >= kernel[k].cfg_.population
        /\ kernel[k].cfg_.population >= 2
        /\ kernel[k].cfg_.rewireProb > 0
        /\ \E i \in Ids(k) : Agents(k)[i].neighbors # <<>>
        /\ lastOp.op \in {"ctor", "reset"}


(***************************************************************************)
(* Properties of a step                                                    *)
(***************************************************************************)

\* the fields of an agent other than x and B
Frame(a) == [a EXCEPT !.x = <<>>, !.B = <<>>]

\* C27: a belief-update tick changes only x, B and the generation counter:
\* every agent's id, region, language, fluency, traits, multipliers and
\* neighbour list, the region index and the number of agents stay as they
\* were.
C27_StepChangesOnlyBeliefs ==
    [][ \A k \in KIds :
           Ticked(k)
           => /\ DOMAIN kernel'[k].agents_ = Ids(k)
              /\ \A i \in Ids(k) : Frame(kernel'[k].agents_[i]) = Frame(Agents(k)[i])
              /\ kernel'[k].regionIndex_ = kernel[k].regionIndex_
              /\ kernel'[k].cfg_ = kernel[k].cfg_
              /\ kernel'[k].generation_ = kernel[k].generation_ + 1 ]_vars

\* a kernel of at least three agents with neighbours and a positive step size
\* has just been stepped, and its beliefs are no longer the initial ones
C27_Witness ==
    \E k \in KIds :
        /\ Ready(k)
        /\ lastOp = Op("step", k, TRUE)
        /\ VLen(Agents(k)) >= 3
        /\ kernel[k].cfg_.stepSize > 0
        /\ \E i \in Ids(k) :
              /\ Agents(k)[i].neighbors # <<>>
              /\ Agents(k)[i].x # KernelCtor(kernel[k].cfg_).agents_[i].x


(***************************************************************************)
(* Properties of construction                                              *)
(***************************************************************************)

\* C28: graph construction terminates for every configuration: whenever an
\* edge is selected for rewiring there is an admissible new target, so the
\* search loop ends and no construction or reset stays in it for ever.
C28_ConstructionTerminates ==
    \A k \in KIds : kernel[k].pc # "hung"


\* C29: reset(cfg) on a kernel in any state, after any steps and earlier
\* resets with other configurations, yields exactly the state of a freshly
\* constructed Kernel(cfg): agents, neighbour graph, region index, engine
\* state and generation 0; a step taken from there is the step of the fresh
\* kernel.
C29_ResetEqualsFresh ==
    /\ [](\A k \in KIds :
             kernel[k].pc = "ready" /\ lastOp = Op("reset", k, TRUE)
             => /\ kernel[k] = KernelCtor(kernel[k].cfg_)
                /\ kernel[k].generation_ = 0)
    /\ [][ \A k \in KIds :
              (lastOp = Op("reset", k, TRUE) /\ Ticked(k))
              => kernel'[k] = step(KernelCtor(kernel[k].cfg_)) ]_vars

\* a kernel that had been stepped was reset to another population
C29_Witness ==
    \E k \in KIds :
        /\ Ready(k)
        /\ lastOp = Op("reset", k, TRUE)
        /\ VLen(Agents(k)) >= 3
        /\ \E i \in Ids(k) : Agents(k)[i].neighbors # <<>>


(***************************************************************************)
(* Properties of the log file                                              *)
(***************************************************************************)

\* C30: events are streamed to a file only while a log file is open: in
\* every state file_initialized_ implies that log_file_ is open, also after
\* an init that failed and threw; an event logged while no file is open is
\* still appended to the buffer.
C30_InitializedImpliesOpen ==
    /\ [](log.file_initialized_ => log.log_file_.open)
    /\ [][ \A t \in Threads :
              (log.th[t].pc = "emplacing" /\ log'.th[t].pc = "write" /\ ~log.log_file_.open)
              => log'.events_ = Append(log.events_, log.th[t].ev) ]_vars

====
